---- MODULE Spec2Model ----
(***************************************************************************)
(* DataFortress auditor (datafortress/src/App.jsx, v1.4.0): the three      *)
(* source classifiers analyzeSQL, analyzeAD and analyzeBackups, the fusion *)
(* of their verdicts in runAudit, and the upload / validate / run-audit    *)
(* flow of the DataFortressAuditor component.                              *)
(*                                                                         *)
(* JavaScript strings are sequences of one-character strings, so that      *)
(* toLowerCase and includes are computed character by character.           *)
(* null is None (the empty tuple) and a present value x is Some(x).        *)
(* A JavaScript number is Num(n) or NaN; instants are whole hours since    *)
(* the epoch.                                                              *)
(***************************************************************************)
EXTENDS Integers, Sequences, FiniteSets, TLC

VARIABLES
    files,         \* useState files: slot -> [data, valid, error]
    reads,         \* FileReader loads in flight: set of [type, file]
    timers,        \* setTimeout callbacks of runAudit in flight: captured files
    report,        \* useState report: None or Some([sql, ad, backup, overall])
    isProcessing,  \* useState isProcessing
    analyzed,      \* the files the latest timer callback handed to the classifiers
    staleTimers,   \* pending timers that were set before the latest Start New Audit
    uploads,       \* number of handleFileUpload calls so far
    audits,        \* number of runAudit calls so far
    data,          \* argument of the classifier being run
    pos,           \* forEach position in data (number of rows processed)
    riskLevel,     \* let riskLevel of analyzeSQL / analyzeAD
    findings,      \* const findings of analyzeSQL / analyzeAD
    cleanData,     \* const cleanData of analyzeBackups (after sort)
    sqlAnalysis,   \* const sqlAnalysis of runAudit
    adAnalysis,    \* const adAnalysis of runAudit
    backupAnalysis,\* const backupAnalysis of runAudit
    overall,       \* let overall of runAudit
    pc,            \* position of the classifier / fusion being run
    now,           \* const now = new Date() of analyzeBackups, hours since the epoch
    engineSort,    \* the order Array.prototype.sort leaves the backup rows in
    history,       \* the reports of the audits run so far on the same files
    plan,          \* the items of the latest rendering of the remediation plan / export
    csvData,       \* D3ReportGenerator: useState csvData
    reportData,    \* D3ReportGenerator: useState reportData
    loading,       \* D3ReportGenerator: useState loading
    error,         \* D3ReportGenerator: useState error
    validationError, \* D3ReportGenerator: useState validationError
    apiKey,        \* import.meta.env.VITE_GEMINI_API_KEY
    inflight,      \* generateReport calls awaiting the API, with their answers
    staleRequests  \* open requests that were issued before the latest Reset / Sample

vars == <<files, reads, timers, report, isProcessing, analyzed, staleTimers, uploads, audits,
          data, pos, riskLevel, findings, cleanData, sqlAnalysis, adAnalysis,
          backupAnalysis, overall, pc, now, engineSort, history, plan,
          csvData, reportData, loading, error, validationError, apiKey, inflight,
          staleRequests>>

appVars == <<files, reads, timers, report, isProcessing, analyzed, staleTimers, uploads, audits>>
coreVars == <<data, pos, riskLevel, findings, cleanData, sqlAnalysis,
              adAnalysis, backupAnalysis, overall, pc>>
rerunVars == <<now, engineSort, history>>
planVars == <<plan>>
d3Vars == <<csvData, reportData, loading, error, validationError, apiKey, inflight,
           staleRequests>>
extVars == <<rerunVars, planVars, d3Vars>>

----------------------------------------------------------------------------
(* JavaScript values *)

None == <<>>
Some(x) == <<x>>

\* the value of a property the object does not have
Undefined == <<"undefined">>

NaN == <<>>
Num(n) == <<n>>

\* a <= b on numbers: false when either side is NaN
NumLE(a, b) == a # NaN /\ b # NaN /\ a[1] <= b[1]

\* a > b on numbers: false when either side is NaN
NumGT(a, b) == a # NaN /\ b # NaN /\ a[1] > b[1]

\* a - b on numbers: NaN when either side is NaN
NumSub(a, b) == IF a = NaN \/ b = NaN THEN NaN ELSE Num(a[1] - b[1])

UpperChars == <<"A","B","C","D","E","F","G","H","I","J","K","L","M","N","O","P","Q","R","S","T","U","V","W","X","Y","Z">>
LowerChars == <<"a","b","c","d","e","f","g","h","i","j","k","l","m","n","o","p","q","r","s","t","u","v","w","x","y","z">>
DigitChars == <<"0","1","2","3","4","5","6","7","8","9">>

toLowerCaseChar(c) ==
    IF \E i \in 1..26 : UpperChars[i] = c
    THEN LowerChars[CHOOSE i \in 1..26 : UpperChars[i] = c]
    ELSE c

\* String.prototype.toLowerCase
toLowerCase(s) == [i \in 1..Len(s) |-> toLowerCaseChar(s[i])]

\* String.prototype.includes
includes(s, p) ==
    \E i \in 0..(Len(s) - Len(p)) : \A j \in 1..Len(p) : s[i + j] = p[j]

\* row.key
Get(row, key) == IF key \in DOMAIN row THEN row[key] ELSE Undefined

\* v || d on a string-or-undefined v: undefined and '' are falsy
OrElse(v, d) == IF v = Undefined \/ v = <<>> THEN d ELSE v

\* `${v}` in a template literal
Interpolate(v) == IF v = Undefined THEN <<"u","n","d","e","f","i","n","e","d">> ELSE v

IsWhiteSpace(c) == c \in {" ", "\t"}
IsDigit(c) == \E i \in 1..10 : DigitChars[i] = c
DigitValue(c) == (CHOOSE i \in 1..10 : DigitChars[i] = c) - 1

RECURSIVE TrimStart(_)
TrimStart(s) ==
    IF s # <<>> /\ IsWhiteSpace(Head(s)) THEN TrimStart(Tail(s)) ELSE s

RECURSIVE DigitPrefixValue(_, _)
DigitPrefixValue(s, acc) ==
    IF s # <<>> /\ IsDigit(Head(s))
    THEN DigitPrefixValue(Tail(s), 10 * acc + DigitValue(Head(s)))
    ELSE acc

\* parseInt(string) without radix, on decimal input: leading white space is
\* skipped, an optional sign is read, then the longest prefix of digits;
\* NaN when there is no digit at that place
parseInt(str) ==
    LET s == TrimStart(str)
        signed == s # <<>> /\ Head(s) \in {"+", "-"}
        body == IF signed THEN Tail(s) ELSE s
        magnitude == DigitPrefixValue(body, 0)
    IN  IF body = <<>> \/ ~IsDigit(Head(body)) THEN NaN
        ELSE IF signed /\ Head(s) = "-" THEN Num(0 - magnitude)
        ELSE Num(magnitude)

----------------------------------------------------------------------------
(* Column names and text constants of the source *)

K_Priority == <<"P","r","i","o","r","i","t","y">>
K_Finding == <<"F","i","n","d","i","n","g">>
K_Details == <<"D","e","t","a","i","l","s">>
K_DatabaseName == <<"D","a","t","a","b","a","s","e","N","a","m","e">>
K_GroupName == <<"G","r","o","u","p","N","a","m","e">>
K_Name == <<"N","a","m","e">>
K_SamAccountName == <<"S","a","m","A","c","c","o","u","n","t","N","a","m","e">>
K_TimeCreated == <<"T","i","m","e","C","r","e","a","t","e","d">>
K_TimeGenerated == <<"T","i","m","e","G","e","n","e","r","a","t","e","d">>
K_Message == <<"M","e","s","s","a","g","e">>

PriorityDefault == <<"9","9","9">>
PriorityThreshold == 50
DbNameDefault == <<"U","n","k","n","o","w","n">>
P_backupsNotPerformed == <<"b","a","c","k","u","p","s"," ","n","o","t"," ","p","e","r","f","o","r","m","e","d">>
P_corruptionCheck == <<"c","o","r","r","u","p","t","i","o","n"," ","c","h","e","c","k">>
T_NoBackups == <<"N","o"," ","B","a","c","k","u","p","s",":"," ">>
T_CorruptionRisk == <<"C","o","r","r","u","p","t","i","o","n"," ","R","i","s","k",":"," ">>
T_ConfigIssue == <<"C","o","n","f","i","g"," ","I","s","s","u","e",":"," ">>
T_UnsecuredAdmin == <<"U","n","s","e","c","u","r","e","d"," ","A","d","m","i","n",":"," ">>

----------------------------------------------------------------------------
(* analyzeSQL *)

\* variant of priorityOf with the default 0: parseInt(row.Priority || 0)
priorityOfDefaultZero(row) == parseInt(OrElse(Get(row, K_Priority), <<"0">>))

\* const priority = parseInt(row.Priority || 999)
priorityOf(row) == parseInt(OrElse(Get(row, K_Priority), PriorityDefault))

\* const findingText = (row.Finding || '').toLowerCase()
findingTextOf(row) == toLowerCase(OrElse(Get(row, K_Finding), <<>>))

\* const dbName = row.DatabaseName || 'Unknown'
dbNameOf(row) == OrElse(Get(row, K_DatabaseName), DbNameDefault)

\* if (priority <= 50)
actionable(row) == NumLE(priorityOf(row), Num(PriorityThreshold))

\* variant of riskAfterHigh without the guard: riskLevel = 'HIGH'
riskAfterHighUnguarded(risk) == "HIGH"

\* riskLevel after a HIGH finding: if (riskLevel !== 'CRITICAL') riskLevel = 'HIGH'
riskAfterHigh(risk) == IF risk # "CRITICAL" THEN "HIGH" ELSE risk

\* variant of riskAfterMedium without the guard: riskLevel = 'MEDIUM'
riskAfterMediumUnguarded(risk) == "MEDIUM"

\* riskLevel after a MEDIUM finding: if (riskLevel === 'LOW') riskLevel = 'MEDIUM'
riskAfterMedium(risk) == IF risk = "LOW" THEN "MEDIUM" ELSE risk

\* variant of sqlRow that tests 'corruption check' before 'backups not performed'
sqlRowCorruptionFirst(acc, row) ==
    LET findingText == findingTextOf(row)
        dbName == dbNameOf(row)
    IN  IF actionable(row)
        THEN IF includes(findingText, P_corruptionCheck)
             THEN [risk |-> riskAfterHigh(acc.risk),
                   findings |-> Append(acc.findings,
                       [type |-> "HIGH", title |-> T_CorruptionRisk \o dbName])]
             ELSE IF includes(findingText, P_backupsNotPerformed)
             THEN [risk |-> "CRITICAL",
                   findings |-> Append(acc.findings,
                       [type |-> "CRITICAL", title |-> T_NoBackups \o dbName])]
             ELSE [risk |-> riskAfterMedium(acc.risk),
                   findings |-> Append(acc.findings,
                       [type |-> "MEDIUM", title |-> T_ConfigIssue \o findingText])]
        ELSE acc

\* the body of data.forEach in analyzeSQL, from acc = [risk, findings]
sqlRow(acc, row) ==
    LET findingText == findingTextOf(row)
        dbName == dbNameOf(row)
    IN  IF actionable(row)
        THEN IF includes(findingText, P_backupsNotPerformed)
             THEN [risk |-> "CRITICAL",
                   findings |-> Append(acc.findings,
                       [type |-> "CRITICAL", title |-> T_NoBackups \o dbName])]
             ELSE IF includes(findingText, P_corruptionCheck)
             THEN [risk |-> riskAfterHigh(acc.risk),
                   findings |-> Append(acc.findings,
                       [type |-> "HIGH", title |-> T_CorruptionRisk \o dbName])]
             ELSE [risk |-> riskAfterMedium(acc.risk),
                   findings |-> Append(acc.findings,
                       [type |-> "MEDIUM", title |-> T_ConfigIssue \o findingText])]
        ELSE acc

\* !data || data.length === 0
noData(d) == IF d = None THEN TRUE ELSE d[1] = <<>>

RECURSIVE sqlFold(_, _)
sqlFold(acc, rows) ==
    IF rows = <<>> THEN acc ELSE sqlFold(sqlRow(acc, Head(rows)), Tail(rows))

\* variant of analyzeSQL whose guard is only !data
analyzeSQLNullGuardOnly(d) ==
    IF d = None THEN [risk |-> "UNKNOWN", findings |-> <<>>]
    ELSE sqlFold([risk |-> "LOW", findings |-> <<>>], d[1])

analyzeSQL(d) ==
    IF noData(d) THEN [risk |-> "UNKNOWN", findings |-> <<>>]
    ELSE sqlFold([risk |-> "LOW", findings |-> <<>>], d[1])

----------------------------------------------------------------------------
(* Bounds and input rows *)

\* longest record sequence handed to a classifier
MaxRows == 3

RECURSIVE SeqsUpTo(_, _)
SeqsUpTo(S, n) ==
    IF n = 0 THEN {<<>>}
    ELSE LET shorter == SeqsUpTo(S, n - 1)
         IN  shorter \cup {Append(s, x) : s \in {t \in shorter : Len(t) = n - 1}, x \in S}

\* null, or an array of at most MaxRows rows of S
Inputs(S) == {None} \cup {Some(s) : s \in SeqsUpTo(S, MaxRows)}

SqlCritical == (K_Priority :> <<"1","0">>) @@ (K_Finding :> <<"B","a","c","k","u","p","s"," ","N","o","t"," ","P","e","r","f","o","r","m","e","d">>)
                   @@ (K_DatabaseName :> <<"H","R">>)
SqlHighAt50 == (K_Priority :> <<"5","0">>) @@ (K_Finding :> <<"N","o"," ","C","o","r","r","u","p","t","i","o","n"," ","C","h","e","c","k">>)
                   @@ (K_DatabaseName :> <<"H","R">>)
SqlMedium == (K_Priority :> <<" ","2","0","x">>) @@ (K_Finding :> <<"S","l","o","w"," ","I","O">>)
SqlOver50 == (K_Priority :> <<"5","1">>) @@ (K_Finding :> <<"B","a","c","k","u","p","s"," ","n","o","t"," ","p","e","r","f","o","r","m","e","d">>)
SqlBlankPriority == (K_Priority :> <<>>) @@ (K_Finding :> <<"B","a","c","k","u","p","s"," ","n","o","t"," ","p","e","r","f","o","r","m","e","d">>)
SqlNoPriority == (K_Finding :> <<"c","o","r","r","u","p","t","i","o","n"," ","c","h","e","c","k">>) @@ (K_Details :> <<"d">>)
SqlBadPriority == (K_Priority :> <<"n","/","a">>) @@ (K_Finding :> <<"B","a","c","k","u","p","s"," ","n","o","t"," ","p","e","r","f","o","r","m","e","d">>)
SqlLowerCaseColumns == (<<"p","r","i","o","r","i","t","y">> :> <<"1","0">>) @@ (<<"f","i","n","d","i","n","g">> :> <<"B","a","c","k","u","p","s"," ","n","o","t"," ","p","e","r","f","o","r","m","e","d">>)
SqlBothPatterns == (K_Priority :> <<"1">>)
                   @@ (K_Finding :> <<"b","a","c","k","u","p","s"," ","n","o","t"," ","p","e","r","f","o","r","m","e","d",";"," ","c","o","r","r","u","p","t","i","o","n"," ","c","h","e","c","k">>)
SqlNoFinding == (K_Priority :> <<"-","5">>) @@ (K_DatabaseName :> <<"H","R">>)

SqlRows == {SqlCritical, SqlHighAt50, SqlMedium, SqlOver50, SqlBlankPriority,
            SqlNoPriority, SqlBadPriority, SqlLowerCaseColumns, SqlBothPatterns,
            SqlNoFinding}

----------------------------------------------------------------------------
(* The component's state *)

Slots == {"sql", "ad", "backup"}

\* useState({ sql: { data: null, valid: false, error: null }, ad: ..., backup: ... })
InitFiles == [t \in Slots |-> [data |-> None, valid |-> FALSE, error |-> None]]

AppIdle ==
    /\ files = InitFiles
    /\ reads = {}
    /\ timers = <<>>
    /\ report = None
    /\ isProcessing = FALSE
    /\ analyzed = None
    /\ staleTimers = 0
    /\ uploads = 0
    /\ audits = 0

\* the parts of the model a specification does not use
RerunIdle ==
    /\ now = Num(0)
    /\ engineSort = <<>>
    /\ history = <<>>

PlanIdle == plan = None

D3Idle ==
    /\ csvData = <<>>
    /\ reportData = None
    /\ loading = FALSE
    /\ error = None
    /\ validationError = ""
    /\ apiKey = ""
    /\ inflight = <<>>
    /\ staleRequests = 0

ExtIdle == RerunIdle /\ PlanIdle /\ D3Idle

CoreIdle ==
    /\ data = None
    /\ pos = 0
    /\ riskLevel = "LOW"
    /\ findings = <<>>
    /\ cleanData = <<>>
    /\ sqlAnalysis = None
    /\ adAnalysis = None
    /\ backupAnalysis = None
    /\ overall = "LOW"
    /\ pc = "idle"

----------------------------------------------------------------------------
(* analyzeSQL, one forEach iteration per step *)

InitSQL ==
    /\ AppIdle
    /\ ExtIdle
    /\ data \in Inputs(SqlRows)
    /\ pos = 0
    /\ riskLevel = "LOW"
    /\ findings = <<>>
    /\ cleanData = <<>>
    /\ sqlAnalysis = None
    /\ adAnalysis = None
    /\ backupAnalysis = None
    /\ overall = "LOW"
    /\ pc = "start"

\* if (!data || data.length === 0) return { risk: 'UNKNOWN', findings: [] }
sqlReturnUnknown ==
    /\ pc = "start"
    /\ noData(data)
    /\ sqlAnalysis' = Some(analyzeSQL(data))
    /\ pc' = "done"
    /\ UNCHANGED <<extVars, appVars, data, pos, riskLevel, findings, cleanData,
                   adAnalysis, backupAnalysis, overall>>

\* const findings = []; let riskLevel = 'LOW'
sqlBegin ==
    /\ pc = "start"
    /\ ~noData(data)
    /\ findings' = <<>>
    /\ riskLevel' = "LOW"
    /\ pos' = 0
    /\ pc' = "loop"
    /\ UNCHANGED <<extVars, appVars, data, cleanData, sqlAnalysis, adAnalysis,
                   backupAnalysis, overall>>

\* data.forEach(row => { ... })
sqlForEach ==
    /\ pc = "loop"
    /\ pos < Len(data[1])
    /\ LET acc == sqlRow([risk |-> riskLevel, findings |-> findings], data[1][pos + 1])
       IN  /\ riskLevel' = acc.risk
           /\ findings' = acc.findings
    /\ pos' = pos + 1
    /\ UNCHANGED <<extVars, appVars, data, cleanData, sqlAnalysis, adAnalysis,
                   backupAnalysis, overall, pc>>

\* return { risk: riskLevel, findings }
sqlReturn ==
    /\ pc = "loop"
    /\ pos = Len(data[1])
    /\ sqlAnalysis' = Some([risk |-> riskLevel, findings |-> findings])
    /\ pc' = "done"
    /\ UNCHANGED <<extVars, appVars, data, pos, riskLevel, findings, cleanData,
                   adAnalysis, backupAnalysis, overall>>

NextSQL == sqlReturnUnknown \/ sqlBegin \/ sqlForEach \/ sqlReturn

SpecSQL == InitSQL /\ [][NextSQL]_vars

----------------------------------------------------------------------------
(* analyzeAD *)

P_admin == <<"a","d","m","i","n">>

\* const redFlagKeywords = ['temp', 'scanner', ...]
redFlagKeywords == << <<"t","e","m","p">>, <<"s","c","a","n","n","e","r">>, <<"b","a","c","k","u","p">>, <<"s","e","r","v","i","c","e">>,
                      <<"t","e","s","t">>, <<"m","s","p">>, <<"v","e","n","d","o","r">>, <<"p","r","i","n","t","e","r">>, <<"c","o","p","y">> >>

\* const group = (row.GroupName || '').toLowerCase()
groupOf(row) == toLowerCase(OrElse(Get(row, K_GroupName), <<>>))

\* variant of combinedSearchOf without the separating space: `${name}${sam}`
combinedSearchOfNoSeparator(row) ==
    toLowerCase(OrElse(Get(row, K_Name), <<>>))
        \o toLowerCase(OrElse(Get(row, K_SamAccountName), <<>>))

\* const combinedSearch = `${name} ${sam}`
combinedSearchOf(row) ==
    LET name == toLowerCase(OrElse(Get(row, K_Name), <<>>))
        sam == toLowerCase(OrElse(Get(row, K_SamAccountName), <<>>))
    IN  name \o <<" ">> \o sam

\* redFlagKeywords.forEach(keyword => { if (combinedSearch.includes(keyword)) isRedFlag = true })
isRedFlag(row) ==
    \E k \in 1..Len(redFlagKeywords) :
        includes(combinedSearchOf(row), redFlagKeywords[k])

\* the finding pushed for a flagged row
adFinding(row) ==
    [type |-> "CRITICAL",
     title |-> T_UnsecuredAdmin \o Interpolate(Get(row, K_SamAccountName))]

\* variant of adRow that pushes the finding without riskLevel = 'CRITICAL'
adRowWithoutEscalation(acc, row) ==
    IF includes(groupOf(row), P_admin)
    THEN IF isRedFlag(row)
         THEN [risk |-> acc.risk, findings |-> Append(acc.findings, adFinding(row))]
         ELSE acc
    ELSE acc

\* the body of data.forEach in analyzeAD, from acc = [risk, findings]
adRow(acc, row) ==
    IF includes(groupOf(row), P_admin)
    THEN IF isRedFlag(row)
         THEN [risk |-> "CRITICAL", findings |-> Append(acc.findings, adFinding(row))]
         ELSE acc
    ELSE acc

RECURSIVE adFold(_, _)
adFold(acc, rows) ==
    IF rows = <<>> THEN acc ELSE adFold(adRow(acc, Head(rows)), Tail(rows))

analyzeAD(d) ==
    IF noData(d) THEN [risk |-> "UNKNOWN", findings |-> <<>>]
    ELSE adFold([risk |-> "LOW", findings |-> <<>>], d[1])

AdSvcBackup == (K_GroupName :> <<"D","o","m","a","i","n"," ","A","d","m","i","n","s">>) @@ (K_Name :> <<"B","a","c","k","u","p"," ","S","e","r","v","i","c","e">>)
                   @@ (K_SamAccountName :> <<"s","v","c","_","b","a","c","k","u","p">>)
AdJane == (K_GroupName :> <<"D","o","m","a","i","n"," ","A","d","m","i","n","s">>) @@ (K_Name :> <<"J","a","n","e"," ","D","o","e">>)
                   @@ (K_SamAccountName :> <<"j","a","n","e",".","d","o","e">>)
AdNonAdminTemp == (K_GroupName :> <<"U","s","e","r","s">>) @@ (K_Name :> <<"T","e","m","p">>)
                   @@ (K_SamAccountName :> <<"t","e","m","p","1">>)
AdSplitKeyword == (K_GroupName :> <<"D","o","m","a","i","n"," ","A","d","m","i","n","s">>) @@ (K_Name :> <<"D","a","n","t","e">>)
                   @@ (K_SamAccountName :> <<"s","t","o","n","e">>)
AdUpperCase == (K_GroupName :> <<"A","D","M","I","N","I","S","T","R","A","T","O","R","S">>) @@ (K_SamAccountName :> <<"P","R","I","N","T","E","R","0","1">>)
AdNoSam == (K_GroupName :> <<"E","n","t","e","r","p","r","i","s","e"," ","A","d","m","i","n","s">>) @@ (K_Name :> <<"M","S","P"," ","V","e","n","d","o","r">>)
AdLowerCaseColumns == (<<"g","r","o","u","p","n","a","m","e">> :> <<"D","o","m","a","i","n"," ","A","d","m","i","n","s">>) @@ (<<"n","a","m","e">> :> <<"B","a","c","k","u","p"," ","S","e","r","v","i","c","e">>)
                   @@ (<<"s","a","m","a","c","c","o","u","n","t","n","a","m","e">> :> <<"s","v","c","_","b","a","c","k","u","p">>)
AdBlank == (K_GroupName :> <<>>) @@ (K_Name :> <<>>) @@ (K_SamAccountName :> <<>>)

AdRows == {AdSvcBackup, AdJane, AdNonAdminTemp, AdSplitKeyword, AdUpperCase,
           AdNoSam, AdLowerCaseColumns, AdBlank}

----------------------------------------------------------------------------
(* analyzeAD, one forEach iteration per step *)

InitAD ==
    /\ AppIdle
    /\ ExtIdle
    /\ data \in Inputs(AdRows)
    /\ pos = 0
    /\ riskLevel = "LOW"
    /\ findings = <<>>
    /\ cleanData = <<>>
    /\ sqlAnalysis = None
    /\ adAnalysis = None
    /\ backupAnalysis = None
    /\ overall = "LOW"
    /\ pc = "start"

\* if (!data || data.length === 0) return { risk: 'UNKNOWN', findings: [] }
adReturnUnknown ==
    /\ pc = "start"
    /\ noData(data)
    /\ adAnalysis' = Some(analyzeAD(data))
    /\ pc' = "done"
    /\ UNCHANGED <<extVars, appVars, data, pos, riskLevel, findings, cleanData,
                   sqlAnalysis, backupAnalysis, overall>>

\* const findings = []; let riskLevel = 'LOW'
adBegin ==
    /\ pc = "start"
    /\ ~noData(data)
    /\ findings' = <<>>
    /\ riskLevel' = "LOW"
    /\ pos' = 0
    /\ pc' = "loop"
    /\ UNCHANGED <<extVars, appVars, data, cleanData, sqlAnalysis, adAnalysis,
                   backupAnalysis, overall>>

\* data.forEach(row => { ... })
adForEach ==
    /\ pc = "loop"
    /\ pos < Len(data[1])
    /\ LET acc == adRow([risk |-> riskLevel, findings |-> findings], data[1][pos + 1])
       IN  /\ riskLevel' = acc.risk
           /\ findings' = acc.findings
    /\ pos' = pos + 1
    /\ UNCHANGED <<extVars, appVars, data, cleanData, sqlAnalysis, adAnalysis,
                   backupAnalysis, overall, pc>>

\* return { risk: riskLevel, findings }
adReturn ==
    /\ pc = "loop"
    /\ pos = Len(data[1])
    /\ adAnalysis' = Some([risk |-> riskLevel, findings |-> findings])
    /\ pc' = "done"
    /\ UNCHANGED <<extVars, appVars, data, pos, riskLevel, findings, cleanData,
                   sqlAnalysis, backupAnalysis, overall>>

NextAD == adReturnUnknown \/ adBegin \/ adForEach \/ adReturn

SpecAD == InitAD /\ [][NextAD]_vars

----------------------------------------------------------------------------
(* analyzeBackups *)

P_successfully == <<"s","u","c","c","e","s","s","f","u","l","l","y">>
P_succeeded == <<"s","u","c","c","e","e","d","e","d">>
P_fail == <<"f","a","i","l">>
P_error == <<"e","r","r","o","r">>

\* the 24 of (hoursGap > 24)
GapThresholdHours == 24

\* new Date(0), in hours since the epoch
EpochFloor == 0

TS_Jan01 == <<"2","0","2","5","-","0","1","-","0","1","T","0","0",":","0","0",":","0","0","Z">>
TS_Jan02 == <<"2","0","2","5","-","0","1","-","0","2","T","0","0",":","0","0",":","0","0","Z">>
TS_Jan02_01h == <<"2","0","2","5","-","0","1","-","0","2","T","0","1",":","0","0",":","0","0","Z">>
TS_Jan03 == <<"2","0","2","5","-","0","1","-","0","3","T","0","0",":","0","0",":","0","0","Z">>

\* new Date(timeStr): the instant in hours since the epoch of the ISO
\* timestamps the inputs use, Invalid Date (NaN) for any other text
newDate(timeStr) ==
    IF timeStr = TS_Jan01 THEN Num(482136)
    ELSE IF timeStr = TS_Jan02 THEN Num(482160)
    ELSE IF timeStr = TS_Jan02_01h THEN Num(482161)
    ELSE IF timeStr = TS_Jan03 THEN Num(482184)
    ELSE NaN

\* const timeStr = row.TimeCreated || row.TimeGenerated || row['TimeCreated'] || ''
timeStrOf(row) ==
    OrElse(Get(row, K_TimeCreated),
           OrElse(Get(row, K_TimeGenerated),
                  OrElse(Get(row, K_TimeCreated), <<>>)))

\* the object data.map builds for a row
cleanRow(row) ==
    [date |-> newDate(timeStrOf(row)),
     message |-> toLowerCase(OrElse(Get(row, K_Message), <<>>)),
     original |-> row]

\* (a, b) => b.date - a.date
comparator(a, b) == NumSub(b.date, a.date)

\* Array.prototype.sort with that comparator.  When every date is valid the
\* comparator is consistent and the sort is the stable descending sort.  With
\* an Invalid Date the comparator returns NaN (taken as 0) and is not
\* consistent, so the order is implementation-defined: every arrangement in
\* which no two neighbours are strictly out of order is a possible outcome.
SortOutcomes(rows) ==
    LET n == Len(rows)
        consistent == \A i \in 1..n : rows[i].date # NaN
        inOrder(f) ==
            \A i \in 1..(n - 1) :
                /\ ~NumGT(comparator(rows[f[i]], rows[f[i + 1]]), Num(0))
                /\ (consistent /\ rows[f[i]].date = rows[f[i + 1]].date) => f[i] < f[i + 1]
    IN  {[i \in 1..n |-> rows[f[i]]] : f \in {g \in Permutations(1..n) : inOrder(g)}}

\* row.message.includes('successfully') || row.message.includes('succeeded')
isSuccessRow(r) == includes(r.message, P_successfully) \/ includes(r.message, P_succeeded)

\* row.message.includes('fail') || row.message.includes('error')
isFailureRow(r) == includes(r.message, P_fail) \/ includes(r.message, P_error)

\* cleanData.find(isSuccessRow): None when no row matches
successRowOf(sorted) ==
    LET hits == {i \in 1..Len(sorted) : isSuccessRow(sorted[i])}
    IN  IF hits = {} THEN None
        ELSE Some(sorted[CHOOSE i \in hits : \A j \in hits : i <= j])

\* if (!lastSuccessDate || row.date > lastSuccessDate) failCount++
countsAsFailure(r, lastSuccessDate) ==
    /\ isFailureRow(r)
    /\ IF lastSuccessDate = None THEN TRUE ELSE NumGT(r.date, lastSuccessDate[1])

\* variant of statusOf that reports an unusable gap as a fourth status
statusOfWithInvalid(hoursGap) ==
    IF hoursGap = NaN THEN "INVALID"
    ELSE IF NumGT(hoursGap, Num(24)) THEN "FAIL" ELSE "PASS"

\* (hoursGap > 24) ? 'FAIL' : 'PASS'
statusOf(hoursGap) == IF NumGT(hoursGap, Num(GapThresholdHours)) THEN "FAIL" ELSE "PASS"

\* variant of backupVerdictAt in which an Invalid Date latestLogDate is
\* falsy, so that `|| now` takes the wall clock as the reference time
backupVerdictNowForInvalid(sorted, clock) ==
    LET latestLogDate == IF Len(sorted) > 0 THEN Some(sorted[1].date) ELSE None
        successRow == successRowOf(sorted)
        lastSuccessDate == IF successRow # None THEN Some(successRow[1].date) ELSE None
        failCount == Cardinality({i \in 1..Len(sorted) :
                                     countsAsFailure(sorted[i], lastSuccessDate)})
        refTime == IF latestLogDate # None /\ latestLogDate # Some(NaN)
                   THEN latestLogDate[1] ELSE clock
        compareTime == IF lastSuccessDate # None THEN lastSuccessDate[1] ELSE Num(EpochFloor)
        hoursGap == NumSub(refTime, compareTime)
    IN  [status |-> statusOf(hoursGap),
         gap |-> hoursGap,
         lastSuccess |-> lastSuccessDate,
         latestLog |-> latestLogDate,
         failCount |-> failCount]

\* analyzeBackups after the sort: sorted is cleanData, clock is new Date()
backupVerdictAt(sorted, clock) ==
    LET latestLogDate == IF Len(sorted) > 0 THEN Some(sorted[1].date) ELSE None
        successRow == successRowOf(sorted)
        lastSuccessDate == IF successRow # None THEN Some(successRow[1].date) ELSE None
        failCount == Cardinality({i \in 1..Len(sorted) :
                                     countsAsFailure(sorted[i], lastSuccessDate)})
        \* const refTime = latestLogDate || now: a Date object is truthy, an
        \* Invalid Date too; only null gives way to now
        refTime == IF latestLogDate # None THEN latestLogDate[1] ELSE clock
        compareTime == IF lastSuccessDate # None THEN lastSuccessDate[1] ELSE Num(EpochFloor)
        hoursGap == NumSub(refTime, compareTime)
    IN  [status |-> statusOf(hoursGap),
         gap |-> hoursGap,
         lastSuccess |-> lastSuccessDate,
         latestLog |-> latestLogDate,
         failCount |-> failCount]

\* the wall clock when the analysis is first run, in hours since the epoch
\* (2025-01-03T16:00:00Z, after every timestamp of the inputs)
ClockStart == 482200

\* analyzeBackups after the sort.  sorted is never empty here (the guard on
\* data returned before), so latestLogDate is a Date and now is not read
backupVerdict(sorted) == backupVerdictAt(sorted, Num(ClockStart))

\* return { status: 'UNKNOWN', gap: 0, lastSuccess: null, failCount: 0 }
\* (latestLog is not set there; None stands for the missing property)
backupUnknown ==
    [status |-> "UNKNOWN", gap |-> Num(0), lastSuccess |-> None,
     latestLog |-> None, failCount |-> 0]

\* data.map(row => ...)
cleanMap(rows) == [i \in 1..Len(rows) |-> cleanRow(rows[i])]

\* the verdicts analyzeBackups(d) can return
analyzeBackups(d) ==
    IF noData(d) THEN {backupUnknown}
    ELSE {backupVerdict(s) : s \in SortOutcomes(cleanMap(d[1]))}

BkSuccessJan01 == (K_TimeCreated :> TS_Jan01) @@ (K_Message :> <<"B","a","c","k","u","p"," ","c","o","m","p","l","e","t","e","d"," ","s","u","c","c","e","s","s","f","u","l","l","y">>)
BkFailJan01 == (K_TimeCreated :> TS_Jan01) @@ (K_Message :> <<"B","a","c","k","u","p"," ","f","a","i","l","e","d">>)
BkFailJan02 == (K_TimeCreated :> TS_Jan02) @@ (K_Message :> <<"B","a","c","k","u","p"," ","F","A","I","L","E","D">>)
BkErrorJan02_01h == (K_TimeGenerated :> TS_Jan02_01h) @@ (K_Message :> <<"E","r","r","o","r",":"," ","d","i","s","k"," ","f","u","l","l">>)
BkSucceededJan03 == (K_TimeCreated :> <<>>) @@ (K_TimeGenerated :> TS_Jan03)
                   @@ (K_Message :> <<"J","o","b"," ","S","u","c","c","e","e","d","e","d">>)
BkSuccessBadTime == (K_TimeCreated :> <<"n","/","a">>) @@ (K_Message :> <<"B","a","c","k","u","p"," ","c","o","m","p","l","e","t","e","d"," ","s","u","c","c","e","s","s","f","u","l","l","y">>)
BkFailNoTime == (K_Message :> <<"B","a","c","k","u","p"," ","f","a","i","l","e","d">>)
BkNoMessage == (K_TimeCreated :> TS_Jan03)

BackupRows == {BkSuccessJan01, BkFailJan01, BkFailJan02, BkErrorJan02_01h,
               BkSucceededJan03, BkSuccessBadTime, BkFailNoTime, BkNoMessage}

----------------------------------------------------------------------------
(* analyzeBackups: the sort, then the scan *)

InitBackup ==
    /\ AppIdle
    /\ ExtIdle
    /\ data \in Inputs(BackupRows)
    /\ pos = 0
    /\ riskLevel = "LOW"
    /\ findings = <<>>
    /\ cleanData = <<>>
    /\ sqlAnalysis = None
    /\ adAnalysis = None
    /\ backupAnalysis = None
    /\ overall = "LOW"
    /\ pc = "start"

\* if (!data || data.length === 0) return { status: 'UNKNOWN', ... }
backupReturnUnknown ==
    /\ pc = "start"
    /\ noData(data)
    /\ backupAnalysis' = Some(backupUnknown)
    /\ pc' = "done"
    /\ UNCHANGED <<extVars, appVars, data, pos, riskLevel, findings, cleanData,
                   sqlAnalysis, adAnalysis, overall>>

\* const cleanData = data.map(...).sort(...)
backupSort ==
    /\ pc = "start"
    /\ ~noData(data)
    /\ cleanData' \in SortOutcomes(cleanMap(data[1]))
    /\ pc' = "sorted"
    /\ UNCHANGED <<extVars, appVars, data, pos, riskLevel, findings, sqlAnalysis,
                   adAnalysis, backupAnalysis, overall>>

\* the scan of cleanData and return { status, gap, lastSuccess, latestLog, failCount }
backupReturn ==
    /\ pc = "sorted"
    /\ backupAnalysis' = Some(backupVerdict(cleanData))
    /\ pc' = "done"
    /\ UNCHANGED <<extVars, appVars, data, pos, riskLevel, findings, cleanData,
                   sqlAnalysis, adAnalysis, overall>>

NextBackup == backupReturnUnknown \/ backupSort \/ backupReturn

SpecBackup == InitBackup /\ [][NextBackup]_vars

----------------------------------------------------------------------------
(* runAudit: the fusion of the three verdicts *)

Severities == {"UNKNOWN", "LOW", "MEDIUM", "HIGH", "CRITICAL"}
BackupStatuses == {"UNKNOWN", "PASS", "FAIL"}

\* if (sqlAnalysis.risk === 'MEDIUM' || adAnalysis.risk === 'MEDIUM') overall = 'MEDIUM'
fuseMedium(o, sqlRisk, adRisk) ==
    IF sqlRisk = "MEDIUM" \/ adRisk = "MEDIUM" THEN "MEDIUM" ELSE o

\* if (sqlAnalysis.risk === 'HIGH' || adAnalysis.risk === 'HIGH') overall = 'HIGH'
fuseHigh(o, sqlRisk, adRisk) ==
    IF sqlRisk = "HIGH" \/ adRisk = "HIGH" THEN "HIGH" ELSE o

\* variant of fuseCritical that leaves out adAnalysis.risk === 'CRITICAL'
fuseCriticalWithoutAD(o, sqlRisk, adRisk, backupStatus) ==
    IF sqlRisk = "CRITICAL" \/ backupStatus = "FAIL" THEN "CRITICAL" ELSE o

\* if (sqlAnalysis.risk === 'CRITICAL' || adAnalysis.risk === 'CRITICAL'
\*     || backupAnalysis.status === 'FAIL') overall = 'CRITICAL'
fuseCritical(o, sqlRisk, adRisk, backupStatus) ==
    IF sqlRisk = "CRITICAL" \/ adRisk = "CRITICAL" \/ backupStatus = "FAIL"
    THEN "CRITICAL" ELSE o

\* let overall = 'LOW' and the three reassignments
overallOf(sqlRisk, adRisk, backupStatus) ==
    fuseCritical(fuseHigh(fuseMedium("LOW", sqlRisk, adRisk), sqlRisk, adRisk),
                 sqlRisk, adRisk, backupStatus)

\* let overall = 'LOW'
fuseBegin ==
    /\ pc = "fuse"
    /\ overall' = "LOW"
    /\ pc' = "medium"
    /\ UNCHANGED <<extVars, appVars, data, pos, riskLevel, findings, cleanData,
                   sqlAnalysis, adAnalysis, backupAnalysis>>

fuseMediumStep ==
    /\ pc = "medium"
    /\ overall' = fuseMedium(overall, sqlAnalysis[1].risk, adAnalysis[1].risk)
    /\ pc' = "high"
    /\ UNCHANGED <<extVars, appVars, data, pos, riskLevel, findings, cleanData,
                   sqlAnalysis, adAnalysis, backupAnalysis>>

fuseHighStep ==
    /\ pc = "high"
    /\ overall' = fuseHigh(overall, sqlAnalysis[1].risk, adAnalysis[1].risk)
    /\ pc' = "critical"
    /\ UNCHANGED <<extVars, appVars, data, pos, riskLevel, findings, cleanData,
                   sqlAnalysis, adAnalysis, backupAnalysis>>

fuseCriticalStep ==
    /\ pc = "critical"
    /\ overall' = fuseCritical(overall, sqlAnalysis[1].risk, adAnalysis[1].risk,
                               backupAnalysis[1].status)
    /\ pc' = "fused"
    /\ UNCHANGED <<extVars, appVars, data, pos, riskLevel, findings, cleanData,
                   sqlAnalysis, adAnalysis, backupAnalysis>>

\* setReport({ sql: sqlAnalysis, ad: adAnalysis, backup: backupAnalysis, overall })
\* setIsProcessing(false)
fuseSetReport ==
    /\ pc = "fused"
    /\ report' = Some([sql |-> sqlAnalysis[1], ad |-> adAnalysis[1],
                       backup |-> backupAnalysis[1], overall |-> overall])
    /\ isProcessing' = FALSE
    /\ pc' = "done"
    /\ UNCHANGED <<extVars, files, reads, timers, analyzed, staleTimers, uploads, audits, data, pos, riskLevel, findings,
                   cleanData, sqlAnalysis, adAnalysis, backupAnalysis, overall>>

\* the fusion on every combination of source risks and backup status
InitFusion ==
    /\ AppIdle
    /\ ExtIdle
    /\ data = None
    /\ pos = 0
    /\ riskLevel = "LOW"
    /\ findings = <<>>
    /\ cleanData = <<>>
    /\ sqlAnalysis \in {Some([risk |-> r, findings |-> <<>>]) : r \in Severities}
    /\ adAnalysis \in {Some([risk |-> r, findings |-> <<>>]) : r \in Severities}
    /\ backupAnalysis \in {Some([backupUnknown EXCEPT !.status = s]) : s \in BackupStatuses}
    /\ overall = "LOW"
    /\ pc = "fuse"

NextFusion ==
    fuseBegin \/ fuseMediumStep \/ fuseHighStep \/ fuseCriticalStep \/ fuseSetReport

SpecFusion == InitFusion /\ [][NextFusion]_vars

----------------------------------------------------------------------------
(* The timer callback of runAudit on any three arguments: the three          *)
(* classifiers, then the fusion.  data holds the three arguments.            *)

\* longest record sequence of a source in a whole audit
MaxAuditRows == 1

AuditInputs(S) == {None} \cup {Some(s) : s \in SeqsUpTo(S, MaxAuditRows)}

\* a row with no field at all
EmptyRow == <<>>

AuditSqlRows == {SqlCritical, SqlMedium, SqlBadPriority, SqlNoPriority, EmptyRow}
AuditAdRows == {AdSvcBackup, AdJane, AdNoSam, EmptyRow}
AuditBackupRows == {BkSuccessJan01, BkFailJan01, BkErrorJan02_01h, BkSuccessBadTime, BkFailNoTime, EmptyRow}

InitAudit ==
    /\ AppIdle
    /\ ExtIdle
    /\ data \in [sql : AuditInputs(AuditSqlRows), ad : AuditInputs(AuditAdRows),
                 backup : AuditInputs(AuditBackupRows)]
    /\ pos = 0
    /\ riskLevel = "LOW"
    /\ findings = <<>>
    /\ cleanData = <<>>
    /\ sqlAnalysis = None
    /\ adAnalysis = None
    /\ backupAnalysis = None
    /\ overall = "LOW"
    /\ pc = "sql"

\* const sqlAnalysis = analyzeSQL(files.sql.data)
auditSQL ==
    /\ pc = "sql"
    /\ sqlAnalysis' = Some(analyzeSQL(data.sql))
    /\ pc' = "ad"
    /\ UNCHANGED <<extVars, appVars, data, pos, riskLevel, findings, cleanData,
                   adAnalysis, backupAnalysis, overall>>

\* const adAnalysis = analyzeAD(files.ad.data)
auditAD ==
    /\ pc = "ad"
    /\ adAnalysis' = Some(analyzeAD(data.ad))
    /\ pc' = "backup"
    /\ UNCHANGED <<extVars, appVars, data, pos, riskLevel, findings, cleanData,
                   sqlAnalysis, backupAnalysis, overall>>

\* const backupAnalysis = analyzeBackups(files.backup.data)
auditBackups ==
    /\ pc = "backup"
    /\ \E v \in analyzeBackups(data.backup) : backupAnalysis' = Some(v)
    /\ pc' = "fuse"
    /\ UNCHANGED <<extVars, appVars, data, pos, riskLevel, findings, cleanData,
                   sqlAnalysis, adAnalysis, overall>>

NextAudit ==
    \/ auditSQL \/ auditAD \/ auditBackups
    \/ fuseBegin \/ fuseMediumStep \/ fuseHighStep \/ fuseCriticalStep \/ fuseSetReport

SpecAudit == InitAudit /\ [][NextAudit]_vars

----------------------------------------------------------------------------
(* validateFile and the uploaded files *)

\* Array.prototype.includes
arrayIncludes(arr, x) == \E i \in 1..Len(arr) : arr[i] = x

\* variant of detectType that tests the backup fingerprint first
detectTypeBackupFirst(headers) ==
    IF arrayIncludes(headers, <<"m","e","s","s","a","g","e">>)
    THEN Some("backup")
    ELSE IF arrayIncludes(headers, <<"p","r","i","o","r","i","t","y">>) /\ arrayIncludes(headers, <<"f","i","n","d","i","n","g">>)
    THEN Some("sql")
    ELSE IF arrayIncludes(headers, <<"g","r","o","u","p","n","a","m","e">>) /\ arrayIncludes(headers, <<"s","a","m","a","c","c","o","u","n","t","n","a","m","e">>)
    THEN Some("ad")
    ELSE None

\* let detectedType = null; if (...) detectedType = 'sql'; else if ...
detectType(headers) ==
    IF arrayIncludes(headers, <<"p","r","i","o","r","i","t","y">>) /\ arrayIncludes(headers, <<"f","i","n","d","i","n","g">>)
    THEN Some("sql")
    ELSE IF arrayIncludes(headers, <<"g","r","o","u","p","n","a","m","e">>) /\ arrayIncludes(headers, <<"s","a","m","a","c","c","o","u","n","t","n","a","m","e">>)
    THEN Some("ad")
    ELSE IF arrayIncludes(headers, <<"m","e","s","s","a","g","e">>)
    THEN Some("backup")
    ELSE None

\* const typeNames = { sql: 'SQL Health', ad: 'AD Security', backup: 'Backup Integrity' }
typeNames == [sql |-> "SQL Health", ad |-> "AD Security", backup |-> "Backup Integrity"]

E_Empty == "File is empty or unreadable."
E_Unknown == "Unknown file format. Ensure it's a valid CSV export."
E_Mismatch(detected) == <<"This appears to be a ", typeNames[detected],
                          " file. Please upload to the correct slot.">>

\* validateFile(type, parsed); parsed is the { headers, data } of parseCSV
validateFile(type, parsed) ==
    IF Len(parsed.data) = 0 THEN [valid |-> FALSE, error |-> Some(E_Empty)]
    ELSE LET headers == [i \in 1..Len(parsed.headers) |-> toLowerCase(parsed.headers[i])]
             detectedType == detectType(headers)
         IN  IF detectedType = None THEN [valid |-> FALSE, error |-> Some(E_Unknown)]
             ELSE IF detectedType[1] # type
             THEN [valid |-> FALSE, error |-> Some(E_Mismatch(detectedType[1]))]
             ELSE [valid |-> TRUE, error |-> None]

\* what parseCSV returns for the files the user picks
CsvSql == [headers |-> <<K_Priority, K_Finding, K_DatabaseName>>,
           data |-> <<SqlCritical, SqlHighAt50>>]
CsvAd == [headers |-> <<K_GroupName, K_Name, K_SamAccountName>>,
          data |-> <<AdJane>>]
CsvBackup == [headers |-> <<K_TimeCreated, K_Message>>,
              data |-> <<BkSuccessJan01, BkFailJan02>>]
CsvUnknown == [headers |-> <<K_TimeCreated>>, data |-> <<BkNoMessage>>]

CsvFiles == {CsvSql, CsvAd, CsvBackup, CsvUnknown}

----------------------------------------------------------------------------
(* The DataFortressAuditor component *)

\* handleFileUpload calls in one session
MaxUploads == 3
\* FileReader loads in flight at once
MaxReads == 2
\* runAudit calls in one session
MaxAudits == 2

Init == AppIdle /\ CoreIdle /\ ExtIdle

\* handleFileUpload(type, e): reader.readAsText(file); the upload cards are
\* rendered only while there is no report
handleFileUpload(type, file) ==
    /\ report = None
    /\ uploads < MaxUploads
    /\ Cardinality(reads) < MaxReads
    /\ reads' = reads \cup {[type |-> type, file |-> file]}
    /\ uploads' = uploads + 1
    /\ UNCHANGED <<extVars, files, timers, report, isProcessing, analyzed, staleTimers, audits, coreVars>>

\* variant of readerOnload that spreads the initial files instead of prev
readerOnloadFromInitial(r) ==
    /\ r \in reads
    /\ LET parsed == r.file
           validation == validateFile(r.type, parsed)
       IN  files' = [InitFiles EXCEPT ![r.type] =
                        [data |-> Some(parsed.data),
                         valid |-> validation.valid,
                         error |-> validation.error]]
    /\ reads' = reads \ {r}
    /\ UNCHANGED <<extVars, timers, report, isProcessing, analyzed, staleTimers, uploads, audits, coreVars>>

\* reader.onload: parseCSV, validateFile, setFiles(prev => ({ ...prev, [type]: ... }))
readerOnload(r) ==
    /\ r \in reads
    /\ LET parsed == r.file
           validation == validateFile(r.type, parsed)
       IN  files' = [files EXCEPT ![r.type] =
                        [data |-> Some(parsed.data),
                         valid |-> validation.valid,
                         error |-> validation.error]]
    /\ reads' = reads \ {r}
    /\ UNCHANGED <<extVars, timers, report, isProcessing, analyzed, staleTimers, uploads, audits, coreVars>>

\* disabled={!files.sql.valid && !files.ad.valid && !files.backup.valid}
generateDisabled == ~files["sql"].valid /\ ~files["ad"].valid /\ ~files["backup"].valid

\* runAudit: setIsProcessing(true); setTimeout(callback, 800).  The callback
\* closes over the files of the render in which the button was clicked.
runAudit ==
    /\ report = None
    /\ ~generateDisabled
    /\ audits < MaxAudits
    /\ isProcessing' = TRUE
    /\ timers' = Append(timers, files)
    /\ audits' = audits + 1
    /\ UNCHANGED <<extVars, files, reads, report, analyzed, staleTimers, uploads, coreVars>>

\* the data a slot can hold: null, or the rows of an uploaded file
SlotData == {None} \cup {Some(c.data) : c \in CsvFiles}

\* the three classifiers on each of them, computed once
sqlVerdictOf == [d \in SlotData |-> analyzeSQL(d)]
adVerdictOf == [d \in SlotData |-> analyzeAD(d)]
backupVerdictsOf == [d \in SlotData |-> analyzeBackups(d)]

\* the report the callback builds from the files it closed over
reportsOf(f) ==
    LET sqlA == sqlVerdictOf[f["sql"].data]
        adA == adVerdictOf[f["ad"].data]
    IN  {[sql |-> sqlA, ad |-> adA, backup |-> backupA,
          overall |-> overallOf(sqlA.risk, adA.risk, backupA.status)] :
            backupA \in backupVerdictsOf[f["backup"].data]}

\* variant of timerFires without setIsProcessing(false)
timerFiresKeepsProcessing ==
    /\ timers # <<>>
    /\ report' \in {Some(rep) : rep \in reportsOf(Head(timers))}
    /\ analyzed' = Some(Head(timers))
    /\ staleTimers' = IF staleTimers > 0 THEN staleTimers - 1 ELSE 0
    /\ timers' = Tail(timers)
    /\ UNCHANGED <<extVars, files, reads, isProcessing, uploads, audits, coreVars>>

\* the setTimeout callback of runAudit: setReport(...); setIsProcessing(false)
timerFires ==
    /\ timers # <<>>
    /\ report' \in {Some(rep) : rep \in reportsOf(Head(timers))}
    /\ analyzed' = Some(Head(timers))
    /\ staleTimers' = IF staleTimers > 0 THEN staleTimers - 1 ELSE 0
    /\ isProcessing' = FALSE
    /\ timers' = Tail(timers)
    /\ UNCHANGED <<extVars, files, reads, uploads, audits, coreVars>>

\* Start New Audit: onClick={() => setReport(null)}
startNewAudit ==
    /\ report # None
    /\ report' = None
    /\ staleTimers' = Len(timers)
    /\ UNCHANGED <<extVars, files, reads, timers, isProcessing, analyzed, uploads, audits, coreVars>>

Next ==
    \/ \E type \in Slots, file \in CsvFiles : handleFileUpload(type, file)
    \/ \E r \in reads : readerOnload(r)
    \/ runAudit
    \/ timerFires
    \/ startNewAudit

Spec == Init /\ [][Next]_vars

----------------------------------------------------------------------------
(* Properties *)

\* the order LOW < MEDIUM < HIGH < CRITICAL, UNKNOWN counted as LOW
SeverityRank(s) ==
    CASE s = "CRITICAL" -> 3
      [] s = "HIGH" -> 2
      [] s = "MEDIUM" -> 1
      [] OTHER -> 0

SeverityOfRank(n) ==
    CASE n = 3 -> "CRITICAL"
      [] n = 2 -> "HIGH"
      [] n = 1 -> "MEDIUM"
      [] OTHER -> "LOW"

MaxOf(S) == CHOOSE x \in S : \A y \in S : y <= x

\* backup status as a severity: CRITICAL if FAIL else LOW
StatusRank(status) == IF status = "FAIL" THEN 3 ELSE 0

\* max(sqlRisk, adRisk, backupStatus == FAIL ? CRITICAL : LOW)
MaxSeverity(sqlRisk, adRisk, backupStatus) ==
    SeverityOfRank(MaxOf({SeverityRank(sqlRisk), SeverityRank(adRisk),
                          StatusRank(backupStatus)}))

\* C1: once the three reassignments of runAudit have run, overall is the
\* maximum of sql.risk, ad.risk and (CRITICAL if backup.status = FAIL else
\* LOW) with UNKNOWN counted as LOW; so it is never below either source risk,
\* it is CRITICAL whenever the backup status is FAIL, and the report carries it.
C1_OverallIsMaximum ==
    pc \in {"fused", "done"} =>
        LET s == sqlAnalysis[1].risk
            a == adAnalysis[1].risk
            b == backupAnalysis[1].status
        IN  /\ overall = MaxSeverity(s, a, b)
            /\ SeverityRank(overall) >= SeverityRank(s)
            /\ SeverityRank(overall) >= SeverityRank(a)
            /\ (b = "FAIL" => overall = "CRITICAL")
            /\ (pc = "done" => report # None /\ report[1].overall = overall)

\* AD alone is CRITICAL (SQL LOW, backup PASS) and the fusion has run
C1_Witness ==
    /\ pc = "done"
    /\ sqlAnalysis[1].risk = "LOW"
    /\ adAnalysis[1].risk = "CRITICAL"
    /\ backupAnalysis[1].status = "PASS"
    /\ report[1].overall = "CRITICAL"

\* C2 (as claimed): the timer callback hands a classifier the data of a slot
\* only if that slot's file passed validation; a slot that is not valid
\* contributes no data.
C2_OnlyValidatedDataAnalyzed ==
    analyzed # None =>
        \A t \in Slots : ~analyzed[1][t].valid => noData(analyzed[1][t].data)

WellFormedSourceVerdict(v) ==
    /\ v.risk \in Severities
    /\ \A i \in 1..Len(v.findings) : v.findings[i].type \in {"MEDIUM", "HIGH", "CRITICAL"}

RowCount(d) == IF d = None THEN 0 ELSE Len(d[1])

\* C3: whatever the three record sequences are (null, empty, rows with
\* missing or blank fields, a non-numeric Priority, an unparseable timestamp)
\* every verdict is well formed, every classifier call returns, and the audit
\* ends with a report whose overall is a severity.
C3_VerdictsWellFormed ==
    /\ sqlAnalysis # None => WellFormedSourceVerdict(sqlAnalysis[1])
    /\ adAnalysis # None => WellFormedSourceVerdict(adAnalysis[1])
    /\ backupAnalysis # None =>
           /\ backupAnalysis[1].status \in BackupStatuses
           /\ backupAnalysis[1].failCount \in 0..RowCount(data.backup)
    /\ pc = "backup" => analyzeBackups(data.backup) # {}
    /\ pc = "done" =>
           /\ report # None
           /\ report[1].overall \in {"LOW", "MEDIUM", "HIGH", "CRITICAL"}

\* an audit of a non-numeric Priority, a row without fields and a backup
\* record without timestamp has produced its report
C3_Witness ==
    /\ pc = "done"
    /\ data.sql = Some(<<SqlBadPriority>>)
    /\ data.ad = Some(<<EmptyRow>>)
    /\ data.backup = Some(<<BkFailNoTime>>)
    /\ report # None

\* C4: a classifier called with null or an empty sequence returns UNKNOWN
\* with no findings (backup: UNKNOWN, failCount 0, no last success); three
\* such verdicts fuse to LOW; a source without data leaves overall at the
\* maximum of the other sources.
C4_NoDataIsUnknown ==
    /\ (sqlAnalysis # None /\ noData(data.sql)) =>
           sqlAnalysis[1] = [risk |-> "UNKNOWN", findings |-> <<>>]
    /\ (adAnalysis # None /\ noData(data.ad)) =>
           adAnalysis[1] = [risk |-> "UNKNOWN", findings |-> <<>>]
    /\ (backupAnalysis # None /\ noData(data.backup)) =>
           /\ backupAnalysis[1].status = "UNKNOWN"
           /\ backupAnalysis[1].failCount = 0
           /\ backupAnalysis[1].lastSuccess = None
    /\ pc \in {"fused", "done"} =>
           LET s == sqlAnalysis[1].risk
               a == adAnalysis[1].risk
               b == backupAnalysis[1].status
           IN  /\ (noData(data.sql) /\ noData(data.ad) /\ noData(data.backup))
                      => overall = "LOW"
               /\ noData(data.sql) => overall = MaxSeverity("LOW", a, b)
               /\ noData(data.ad) => overall = MaxSeverity(s, "LOW", b)
               /\ noData(data.backup) => overall = MaxSeverity(s, a, "PASS")

\* null, an empty sequence and null have been classified and fused to LOW
C4_Witness ==
    /\ pc = "done"
    /\ data.sql = None
    /\ data.ad = Some(<<>>)
    /\ data.backup = None
    /\ report[1].overall = "LOW"
    /\ report[1].sql.risk = "UNKNOWN"

\* C4, second case: SQL has no data and AD still escalates overall
C4_WitnessOthersEscalate ==
    /\ pc = "done"
    /\ noData(data.sql)
    /\ report[1].ad.risk = "CRITICAL"
    /\ report[1].overall = "CRITICAL"


\* the value of a column, absent read as empty
Field(row, key) == IF key \in DOMAIN row THEN row[key] ELSE <<>>

\* text contains pat, compared case-insensitively (pat is lower case)
ContainsCI(text, pat) == includes(toLowerCase(text), pat)

\* the rows of a classifier argument
RowsOf(d) == IF d = None THEN <<>> ELSE d[1]

\* the k-th smallest element of a set of indices
NthOf(I, k) == CHOOSE i \in I : Cardinality({j \in I : j < i}) = k - 1

ExpectedColumns == {K_Priority, K_Finding, K_Details, K_DatabaseName, K_GroupName,
                    K_Name, K_SamAccountName, K_TimeCreated, K_TimeGenerated, K_Message}

\* the expected spelling of a column name that differs from it in case only
CanonicalKey(k) ==
    IF \E c \in ExpectedColumns : toLowerCase(c) = toLowerCase(k)
    THEN CHOOSE c \in ExpectedColumns : toLowerCase(c) = toLowerCase(k)
    ELSE k

\* the same row under the expected spelling of its columns
CanonicalRow(row) ==
    [c \in {CanonicalKey(k) : k \in DOMAIN row} |->
        row[CHOOSE k \in DOMAIN row : CanonicalKey(k) = c]]

CanonicalData(d) ==
    IF d = None THEN None ELSE Some([i \in 1..Len(d[1]) |-> CanonicalRow(d[1][i])])

\* C5 (as claimed): the verdict of analyzeSQL does not depend on the letter
\* case of the column names: it equals the verdict of the same rows under
\* the spelling Priority, Finding, Details, DatabaseName.
C5_VerdictIgnoresColumnCase ==
    pc = "done" => sqlAnalysis[1] = analyzeSQL(CanonicalData(data))

\* GroupName contains 'admin'
InAdminGroup(row) == ContainsCI(Field(row, K_GroupName), P_admin)

\* the concatenation of Name and SamAccountName contains a red-flag keyword
KeywordInConcatenation(row) ==
    \E k \in 1..Len(redFlagKeywords) :
        ContainsCI(Field(row, K_Name) \o Field(row, K_SamAccountName), redFlagKeywords[k])

\* Name contains a red-flag keyword, or SamAccountName does
KeywordInNameOrSam(row) ==
    \E k \in 1..Len(redFlagKeywords) :
        \/ ContainsCI(Field(row, K_Name), redFlagKeywords[k])
        \/ ContainsCI(Field(row, K_SamAccountName), redFlagKeywords[k])

\* one CRITICAL finding 'Unsecured Admin: {SamAccountName}' per row of I, in row order
AdFindingsFor(rows, I) ==
    [k \in 1..Cardinality(I) |->
        [type |-> "CRITICAL",
         title |-> T_UnsecuredAdmin \o
                   (IF K_SamAccountName \in DOMAIN rows[NthOf(I, k)]
                    THEN rows[NthOf(I, k)][K_SamAccountName]
                    ELSE <<"u","n","d","e","f","i","n","e","d">>)]]

\* C6 (as claimed): after pos rows, the findings are exactly one CRITICAL
\* finding 'Unsecured Admin: {SamAccountName}' for each row whose GroupName
\* contains 'admin' and whose Name and SamAccountName, concatenated, contain
\* a red-flag keyword.
C6_FindingIffKeywordInConcatenation ==
    pc \in {"loop", "done"} /\ ~noData(data) =>
        findings = AdFindingsFor(data[1],
            {i \in 1..pos : InAdminGroup(data[1][i]) /\ KeywordInConcatenation(data[1][i])})

\* C6 (amended): after pos rows, the findings are exactly one CRITICAL finding
\* 'Unsecured Admin: {SamAccountName}' for each row whose GroupName contains
\* 'admin' and whose Name or whose SamAccountName contains a red-flag keyword;
\* the verdict returned carries these findings.
C6_FindingIffKeywordInNameOrSam ==
    /\ pc \in {"loop", "done"} /\ ~noData(data) =>
           findings = AdFindingsFor(data[1],
               {i \in 1..pos : InAdminGroup(data[1][i]) /\ KeywordInNameOrSam(data[1][i])})
    /\ pc = "done" /\ ~noData(data) => adAnalysis[1].findings = findings
    /\ pc = "done" /\ noData(data) => adAnalysis[1].findings = <<>>

\* an admin row whose keyword is split across Name and SamAccountName and a
\* flagged admin row have been classified: one finding
C6_Witness ==
    /\ pc = "done"
    /\ data = Some(<<AdSplitKeyword, AdSvcBackup>>)
    /\ Len(adAnalysis[1].findings) = 1
    /\ adAnalysis[1].findings[1].title = T_UnsecuredAdmin \o <<"s","v","c","_","b","a","c","k","u","p">>

\* the Priority of a row as an integer: 999 when blank, missing or not
\* parseable as an integer
EffectivePriority(row) ==
    LET p == Field(row, K_Priority)
    IN  IF p = <<>> THEN 999
        ELSE IF parseInt(p) = NaN THEN 999
        ELSE parseInt(p)[1]

\* an actionable record whose Finding contains 'backups not performed'
MissingBackupRecord(row) ==
    /\ EffectivePriority(row) <= 50
    /\ ContainsCI(Field(row, K_Finding), P_backupsNotPerformed)

\* C7: the risk of analyzeSQL is CRITICAL if and only if at least one
\* actionable record (Priority <= 50) has a Finding containing 'backups not
\* performed', compared case-insensitively; this holds of the running risk
\* after every record as well.
C7_CriticalIffMissingBackup ==
    /\ pc \in {"loop", "done"} /\ ~noData(data) =>
           (riskLevel = "CRITICAL" <=>
                \E i \in 1..pos : MissingBackupRecord(data[1][i]))
    /\ pc = "done" =>
           (sqlAnalysis[1].risk = "CRITICAL" <=>
                \E i \in 1..Len(RowsOf(data)) : MissingBackupRecord(RowsOf(data)[i]))

\* a mixed-case 'Backups Not Performed' record followed by a HIGH record:
\* the verdict is CRITICAL
C7_Witness ==
    /\ pc = "done"
    /\ data = Some(<<SqlCritical, SqlHighAt50>>)
    /\ sqlAnalysis[1].risk = "CRITICAL"

C8_Step ==
    (pc = "loop" /\ pos' = pos + 1) =>
        LET row == data[1][pos + 1]
        IN  /\ EffectivePriority(row) <= 50 =>
                   /\ Len(findings') = Len(findings) + 1
                   /\ SubSeq(findings', 1, Len(findings)) = findings
            /\ EffectivePriority(row) > 50 =>
                   /\ findings' = findings
                   /\ riskLevel' = riskLevel

\* C8: processing a record adds one finding if and only if its Priority
\* parses to an integer <= 50, a blank, missing or unparseable Priority
\* counting as 999; a record that is not actionable leaves the findings and
\* the running risk unchanged whatever its Finding text.
C8_FindingIffPriorityAtMost50 == [][C8_Step]_vars

\* a record with an unparseable Priority and the text 'Backups not
\* performed' was processed after a HIGH record: still one finding, risk HIGH
C8_Witness ==
    /\ pc = "loop"
    /\ pos = 2
    /\ data = Some(<<SqlHighAt50, SqlBadPriority>>)
    /\ Len(findings) = 1
    /\ riskLevel = "HIGH"

SeqRange(s) == {s[i] : i \in 1..Len(s)}
Occurrences(s, x) == Cardinality({i \in 1..Len(s) : s[i] = x})
SameElements(s, t) ==
    \A x \in SeqRange(s) \cup SeqRange(t) : Occurrences(s, x) = Occurrences(t, x)

C9_Result ==
    pc = "done" /\ ~noData(data) =>
        LET rows == data[1]
            res == sqlAnalysis[1]
        IN  /\ res.risk = SeverityOfRank(MaxOf({0} \cup
                   {SeverityRank(res.findings[i].type) : i \in 1..Len(res.findings)}))
            /\ \A f \in Permutations(1..Len(rows)) :
                   LET other == analyzeSQL(Some([i \in 1..Len(rows) |-> rows[f[i]]]))
                   IN  /\ other.risk = res.risk
                       /\ SameElements(other.findings, res.findings)

C9_Step == SeverityRank(riskLevel') >= SeverityRank(riskLevel)

\* C9: the risk analyzeSQL returns is the maximum severity among its
\* findings (LOW when there is none), every permutation of the records gives
\* the same risk and the same findings in some order, and the running risk
\* never decreases from one record to the next.
C9_RiskIsOrderIndependent == [](C9_Result) /\ [][C9_Step]_vars

\* a CRITICAL record was processed before a MEDIUM one: the verdict is
\* CRITICAL with two findings
C9_Witness ==
    /\ pc = "done"
    /\ data = Some(<<SqlCritical, SqlMedium>>)
    /\ sqlAnalysis[1].risk = "CRITICAL"
    /\ Len(sqlAnalysis[1].findings) = 2

\* the instant of a record, NaN when its timestamp does not parse
RowInstant(row) == newDate(timeStrOf(row))

\* Message contains 'successfully' or 'succeeded'
RowIsSuccess(row) ==
    \/ ContainsCI(Field(row, K_Message), P_successfully)
    \/ ContainsCI(Field(row, K_Message), P_succeeded)

\* the most recent of a non-empty set of instants, an unparseable one
\* ordering as oldest
MostRecent(instants) ==
    IF \A d \in instants : d = NaN THEN NaN
    ELSE Num(MaxOf({d[1] : d \in {e \in instants : e # NaN}}))

ExpectedLastSuccess(rows) ==
    LET hits == {i \in 1..Len(rows) : RowIsSuccess(rows[i])}
    IN  IF hits = {} THEN None
        ELSE Some(MostRecent({RowInstant(rows[i]) : i \in hits}))

ExpectedGap(rows) ==
    NumSub(MostRecent({RowInstant(rows[i]) : i \in 1..Len(rows)}),
           IF ExpectedLastSuccess(rows) = None THEN Num(0)
           ELSE ExpectedLastSuccess(rows)[1])

\* C10 (as claimed): for a non-empty record sequence lastSuccess is the
\* timestamp of the most recent success record (absent if there is none),
\* hoursSinceSuccess is the most recent log timestamp minus lastSuccess (minus
\* the epoch when there is no success), and status is FAIL if that gap
\* exceeds 24 hours and PASS otherwise.
C10_GapSinceMostRecentSuccess ==
    pc = "done" /\ ~noData(data) =>
        LET v == backupAnalysis[1]
        IN  /\ v.lastSuccess = ExpectedLastSuccess(data[1])
            /\ v.gap = ExpectedGap(data[1])
            /\ v.status = IF NumGT(ExpectedGap(data[1]), Num(24)) THEN "FAIL" ELSE "PASS"

----------------------------------------------------------------------------
(* analyzeBackups: the failure count and the reference time *)

\* Message contains 'fail' or 'error'
RowIsFailure(row) ==
    \/ ContainsCI(Field(row, K_Message), P_fail)
    \/ ContainsCI(Field(row, K_Message), P_error)

\* instant a is strictly after instant b, an unparseable one ordering as oldest
StrictlyAfter(a, b) == a # NaN /\ (b = NaN \/ a[1] > b[1])

ExpectedFailCount(rows) ==
    LET ls == ExpectedLastSuccess(rows)
    IN  Cardinality({i \in 1..Len(rows) :
            /\ RowIsFailure(rows[i])
            /\ (ls = None \/ StrictlyAfter(RowInstant(rows[i]), ls[1]))})

\* C11 (as claimed): failCount is the number of records whose Message
\* contains 'fail' or 'error' and whose timestamp is strictly after
\* lastSuccess (all such records when there is no success record), a record
\* with an unparseable timestamp ordering as oldest and staying in the scan.
C11_FailCountSinceLastSuccess ==
    pc = "done" /\ ~noData(data) =>
        backupAnalysis[1].failCount = ExpectedFailCount(data[1])

\* every timestamp of the input parses
AllTimestampsParse(d) ==
    IF noData(d) THEN TRUE ELSE \A i \in 1..Len(d[1]) : RowInstant(d[1][i]) # NaN

\* C11 restricted to inputs whose timestamps all parse
C11_FailCountWhenTimestampsParse ==
    pc = "done" /\ ~noData(data) /\ AllTimestampsParse(data) =>
        backupAnalysis[1].failCount = ExpectedFailCount(data[1])

\* C12 (as claimed): latestLog is the maximum timestamp across all records,
\* whatever their order; an unparseable timestamp orders as oldest and is
\* not the reference time while some record has a parseable one.
C12_LatestLogIsMaximum ==
    pc = "done" /\ ~noData(data) =>
        backupAnalysis[1].latestLog =
            Some(MostRecent({RowInstant(data[1][i]) : i \in 1..Len(data[1])}))

\* C12 restricted to inputs whose timestamps all parse
C12_LatestLogWhenTimestampsParse ==
    pc = "done" /\ ~noData(data) /\ AllTimestampsParse(data) =>
        backupAnalysis[1].latestLog =
            Some(MostRecent({RowInstant(data[1][i]) : i \in 1..Len(data[1])}))

----------------------------------------------------------------------------
(* A backup log without any success record *)

NoSuccessRecord(rows) == \A i \in 1..Len(rows) : ~RowIsSuccess(rows[i])

FailureRecords(rows) == Cardinality({i \in 1..Len(rows) : RowIsFailure(rows[i])})

\* C13 (as claimed): a non-empty backup log without a success message gives
\* status FAIL, no lastSuccess and failCount equal to the number of
\* fail/error records, so that overall is CRITICAL whatever the SQL and AD
\* risks are.
C13_NoSuccessIsFailAndCritical ==
    (pc = "done" /\ ~noData(data) /\ NoSuccessRecord(data[1])) =>
        LET v == backupAnalysis[1]
        IN  /\ v.status = "FAIL"
            /\ v.lastSuccess = None
            /\ v.failCount = FailureRecords(data[1])
            /\ \A s \in Severities, a \in Severities :
                   overallOf(s, a, v.status) = "CRITICAL"

\* C13 restricted to inputs whose timestamps all parse
C13_NoSuccessWhenTimestampsParse ==
    (pc = "done" /\ ~noData(data) /\ NoSuccessRecord(data[1])
         /\ AllTimestampsParse(data)) =>
        LET v == backupAnalysis[1]
        IN  /\ v.status = "FAIL"
            /\ v.lastSuccess = None
            /\ v.failCount = FailureRecords(data[1])
            /\ \A s \in Severities, a \in Severities :
                   overallOf(s, a, v.status) = "CRITICAL"

\* the end-to-end scenario of C13: one actionable 'Backups not performed'
\* record of database HR, the admin account svc_backup and one 'Backup
\* failed' record of 2025-01-01 give one SQL finding, one AD finding, backup
\* status FAIL and overall CRITICAL
C13_ScenarioReport ==
    (pc = "done" /\ data.sql = Some(<<SqlCritical>>) /\ data.ad = Some(<<AdSvcBackup>>)
         /\ data.backup = Some(<<BkFailJan01>>)) =>
        /\ Len(report[1].sql.findings) = 1
        /\ report[1].sql.findings[1].title = T_NoBackups \o <<"H","R">>
        /\ Len(report[1].ad.findings) = 1
        /\ report[1].ad.findings[1].title = T_UnsecuredAdmin \o <<"s","v","c","_","b","a","c","k","u","p">>
        /\ report[1].backup.status = "FAIL"
        /\ report[1].backup.lastSuccess = None
        /\ report[1].backup.failCount = 1
        /\ report[1].overall = "CRITICAL"

\* that scenario has been audited
C13_ScenarioReached ==
    /\ pc = "done"
    /\ data.sql = Some(<<SqlCritical>>)
    /\ data.ad = Some(<<AdSvcBackup>>)
    /\ data.backup = Some(<<BkFailJan01>>)
    /\ report # None

----------------------------------------------------------------------------
(* Running the audit again on the same files.  The files do not change      *)
(* between the runs (data.map builds a new array, so the sort never touches *)
(* files.backup.data), the wall clock does.  Array.prototype.sort is a      *)
(* deterministic algorithm: whatever order the engine leaves a given array  *)
(* in, it leaves it in that order every time; engineSort is that order.     *)

\* audits of the same files in one session
MaxRuns == 3

\* longest backup log in that session
MaxRerunRows == 2

\* the backup records of that session
RerunBackupRows == {BkSuccessJan01, BkFailJan02, BkFailNoTime, BkSuccessBadTime}

InitRerun ==
    /\ AppIdle
    /\ data \in [sql : {None, Some(<<SqlCritical>>), Some(<<SqlMedium>>)},
                 ad : {None, Some(<<AdSvcBackup>>)},
                 backup : {None} \cup {Some(s) : s \in SeqsUpTo(RerunBackupRows, MaxRerunRows)}]
    /\ pos = 0
    /\ riskLevel = "LOW"
    /\ findings = <<>>
    /\ cleanData = <<>>
    /\ sqlAnalysis = None
    /\ adAnalysis = None
    /\ backupAnalysis = None
    /\ overall = "LOW"
    /\ pc = "idle"
    /\ now = Num(ClockStart)
    /\ engineSort \in (IF noData(data.backup) THEN {<<>>}
                       ELSE SortOutcomes(cleanMap(data.backup[1])))
    /\ history = <<>>
    /\ PlanIdle
    /\ D3Idle

\* time passes between two clicks
clockTick ==
    /\ now[1] < ClockStart + MaxRuns
    /\ now' = Num(now[1] + 1)
    /\ UNCHANGED <<appVars, coreVars, planVars, d3Vars, engineSort, history>>

\* the setTimeout callback of runAudit, whole: the three classifiers, the
\* fusion, setReport and setIsProcessing(false)
auditCallback ==
    /\ report = None
    /\ Len(history) < MaxRuns
    /\ LET sqlA == analyzeSQL(data.sql)
           adA == analyzeAD(data.ad)
           backupA == IF noData(data.backup) THEN backupUnknown
                      ELSE backupVerdictAt(engineSort, now)
           rep == [sql |-> sqlA, ad |-> adA, backup |-> backupA,
                   overall |-> overallOf(sqlA.risk, adA.risk, backupA.status)]
       IN  /\ sqlAnalysis' = Some(sqlA)
           /\ adAnalysis' = Some(adA)
           /\ backupAnalysis' = Some(backupA)
           /\ cleanData' = engineSort
           /\ overall' = rep.overall
           /\ report' = Some(rep)
           /\ history' = Append(history, [at |-> now, report |-> rep])
    /\ isProcessing' = FALSE
    /\ UNCHANGED <<files, reads, timers, analyzed, staleTimers, uploads, audits, data, pos,
                   riskLevel, findings, pc, now, engineSort, planVars, d3Vars>>

NextRerun == clockTick \/ auditCallback \/ startNewAudit

SpecRerun == InitRerun /\ [][NextRerun]_vars

\* C14: every audit of the same record sequences produces the same report
\* (the three verdicts with status, hoursSinceSuccess and failCount, and
\* overall), whatever the wall clock reads and however many audits ran before.
C14_RerunIsIdentical ==
    \A i \in 1..Len(history), j \in 1..Len(history) :
        history[i].report = history[j].report

\* two audits of a log whose first row after the sort has no timestamp have
\* run at different wall-clock times
C14_Witness ==
    /\ Len(history) >= 2
    /\ history[1].at # history[2].at
    /\ Len(engineSort) = 2
    /\ engineSort[1].date = NaN
    /\ history[2].report.backup.status = "PASS"

----------------------------------------------------------------------------
(* analyzeAD: the risk level *)

\* C15: analyzeAD returns CRITICAL exactly when it emitted a finding, LOW
\* for a non-empty input without a match, UNKNOWN exactly for a null or
\* empty input; never MEDIUM or HIGH; every AD finding is CRITICAL.
C15_AdRiskFollowsFindings ==
    /\ riskLevel \in {"LOW", "CRITICAL"}
    /\ pc = "loop" => (riskLevel = "CRITICAL" <=> findings # <<>>)
    /\ pc = "done" =>
           LET v == adAnalysis[1]
           IN  /\ v.risk \in {"UNKNOWN", "LOW", "CRITICAL"}
               /\ v.risk = "CRITICAL" <=> v.findings # <<>>
               /\ v.risk = "UNKNOWN" <=> noData(data)
               /\ (~noData(data) /\ v.findings = <<>>) => v.risk = "LOW"
               /\ \A i \in 1..Len(v.findings) : v.findings[i].type = "CRITICAL"

\* a clean admin and a red-flag admin have been classified: one finding, CRITICAL
C15_Witness ==
    /\ pc = "done"
    /\ data = Some(<<AdJane, AdSvcBackup>>)
    /\ adAnalysis[1].risk = "CRITICAL"
    /\ Len(adAnalysis[1].findings) = 1

\* a non-empty input without a match has been classified LOW
C15_WitnessLow ==
    /\ pc = "done"
    /\ data = Some(<<AdJane, AdNonAdminTemp>>)
    /\ adAnalysis[1] = [risk |-> "LOW", findings |-> <<>>]

----------------------------------------------------------------------------
(* The remediation plan: what the report view and the plain-text export     *)
(* list, in the current version (App.jsx) and in the earlier version of the  *)
(* component.  An item is [kind, heading].                                   *)

\* {cond && item}: the item when cond holds, nothing otherwise
When(cond, item) == IF cond THEN <<item>> ELSE <<>>

\* variant of topImmediateActions without the fallback block
topImmediateActionsWithoutFallback(rep) ==
    When(rep.backup.status = "FAIL",
         [kind |-> "backup", heading |-> "Emergency Backup Run"])
    \o When(Len(rep.ad.findings) > 0,
            [kind |-> "ad", heading |-> "Lock Down Admin Accounts"])
    \o When(Len(rep.sql.findings) > 0,
            [kind |-> "sql", heading |-> "Run DBCC CHECKDB & Log Audits"])

\* earlier version, report view: 'Top 3 Immediate Actions'
topImmediateActions(rep) ==
    When(rep.backup.status = "FAIL",
         [kind |-> "backup", heading |-> "Emergency Backup Run"])
    \o When(Len(rep.ad.findings) > 0,
            [kind |-> "ad", heading |-> "Lock Down Admin Accounts"])
    \o When(Len(rep.sql.findings) > 0,
            [kind |-> "sql", heading |-> "Run DBCC CHECKDB & Log Audits"])
    \o When(rep.overall # "CRITICAL",
            [kind |-> "fallback", heading |-> "Schedule Quarterly Review"])

\* earlier version, handleDownloadTxt: 'IMMEDIATE REMEDIATION PLAN (TOP 3)'
remediationPlanLines(rep) ==
    When(rep.backup.status = "FAIL",
         [kind |-> "backup", heading |-> "EMERGENCY BACKUP RUN"])
    \o When(Len(rep.ad.findings) > 0,
            [kind |-> "ad", heading |-> "LOCK DOWN ADMIN ACCOUNTS"])
    \o When(Len(rep.sql.findings) > 0,
            [kind |-> "sql", heading |-> "DATABASE INTEGRITY CHECKS"])

\* current version, report view: 'Immediate Actions'
immediateActions(rep) ==
    IF rep.overall = "CRITICAL"
    THEN <<[kind |-> "critical", heading |-> "Critical Remediation Required"]>>
    ELSE <<[kind |-> "fallback", heading |-> "Routine Maintenance"]>>

\* current version, handleDownloadTxt: the lines after 'FINDINGS:'
findingsLines(rep) ==
    When(rep.backup.status = "FAIL",
         [kind |-> "backup", heading |-> "BACKUPS FAILED"])
    \o [i \in 1..Len(rep.sql.findings) |-> [kind |-> "sql", heading |-> "SQL"]]
    \o [i \in 1..Len(rep.ad.findings) |-> [kind |-> "ad", heading |-> "AD"]]

\* the report view of the earlier version is rendered
renderTopImmediateActions ==
    /\ report # None
    /\ plan' = Some([view |-> "Top 3 Immediate Actions", items |-> topImmediateActions(report[1])])
    /\ UNCHANGED <<appVars, coreVars, rerunVars, d3Vars>>

\* handleDownloadTxt of the earlier version: if (!report) return; ...
downloadRemediationPlan ==
    /\ report # None
    /\ plan' = Some([view |-> "IMMEDIATE REMEDIATION PLAN", items |-> remediationPlanLines(report[1])])
    /\ UNCHANGED <<appVars, coreVars, rerunVars, d3Vars>>

\* the report view of the current version is rendered
renderImmediateActions ==
    /\ report # None
    /\ plan' = Some([view |-> "Immediate Actions", items |-> immediateActions(report[1])])
    /\ UNCHANGED <<appVars, coreVars, rerunVars, d3Vars>>

\* handleDownloadTxt of the current version: if (!report) return; ...
handleDownloadTxt ==
    /\ report # None
    /\ plan' = Some([view |-> "FINDINGS", items |-> findingsLines(report[1])])
    /\ UNCHANGED <<appVars, coreVars, rerunVars, d3Vars>>

\* an audit of any three record sequences, then the views of its report
NextPlan ==
    \/ NextAudit
    \/ renderTopImmediateActions
    \/ downloadRemediationPlan
    \/ renderImmediateActions
    \/ handleDownloadTxt

SpecPlan == InitAudit /\ [][NextPlan]_vars

Kinds(items) == [i \in 1..Len(items) |-> items[i].kind]

\* C16 (as claimed): in every rendering of the remediation plan, when overall
\* is not CRITICAL the plan is exactly the one fallback item, and when overall
\* is CRITICAL the fallback item is absent.
C16_FallbackReplacesItems ==
    (plan # None /\ plan[1].view # "FINDINGS") =>
        /\ report[1].overall # "CRITICAL" => Kinds(plan[1].items) = <<"fallback">>
        /\ report[1].overall = "CRITICAL" =>
               \A i \in 1..Len(plan[1].items) : plan[1].items[i].kind # "fallback"

\* C16 for the report view of the current version alone
C16_CurrentViewOnly ==
    (plan # None /\ plan[1].view = "Immediate Actions") =>
        /\ report[1].overall # "CRITICAL" => Kinds(plan[1].items) = <<"fallback">>
        /\ report[1].overall = "CRITICAL" =>
               \A i \in 1..Len(plan[1].items) : plan[1].items[i].kind # "fallback"

\* positions of the items of one kind
At(items, kind) == {i \in 1..Len(items) : items[i].kind = kind}

\* the items for backup, AD and SQL come in that order, each present exactly
\* when its condition on the report holds
InPriorityOrder(items, rep) ==
    /\ At(items, "backup") # {} <=> rep.backup.status = "FAIL"
    /\ At(items, "ad") # {} <=> Len(rep.ad.findings) > 0
    /\ At(items, "sql") # {} <=> Len(rep.sql.findings) > 0
    /\ \A i \in At(items, "backup"), j \in At(items, "ad") \cup At(items, "sql") : i < j
    /\ \A i \in At(items, "ad"), j \in At(items, "sql") : i < j

\* C17 (as claimed): the report view and the plain-text export list the
\* backup item (iff status is FAIL), then the AD item (iff there are AD
\* findings), then the SQL item (iff there are SQL findings).
C17_PlanInPriorityOrder ==
    (plan # None /\ plan[1].view # "Immediate Actions") =>
        InPriorityOrder(plan[1].items, report[1])

\* C17 for the report view and the export of the earlier version alone
C17_EarlierVersionOnly ==
    (plan # None /\ plan[1].view \in {"Top 3 Immediate Actions", "IMMEDIATE REMEDIATION PLAN"}) =>
        InPriorityOrder(plan[1].items, report[1])

----------------------------------------------------------------------------
(* validateFile on any header line: one file is read into one slot *)

\* the column names a header line is drawn from
HeaderPool == <<K_Priority, K_Finding, K_GroupName, K_SamAccountName, K_Message,
                <<"M","E","S","S","A","G","E">>, K_TimeCreated>>

\* the header lines: the columns of the pool a file has, in the pool's order
HeaderLines == {SelectSeq(HeaderPool, LAMBDA h : h \in S) : S \in SUBSET SeqRange(HeaderPool)}

\* parseCSV results: a header line and no data row, or one data row
ParsedFiles == [headers : HeaderLines, data : {<<>>, <<EmptyRow>>}]

\* handleFileUpload(type, e) has started reading one file; data keeps what
\* was picked
InitValidate ==
    /\ files = InitFiles
    /\ \E type \in Slots, file \in ParsedFiles :
           /\ reads = {[type |-> type, file |-> file]}
           /\ data = Some([type |-> type, file |-> file])
    /\ timers = <<>>
    /\ report = None
    /\ isProcessing = FALSE
    /\ analyzed = None
    /\ staleTimers = 0
    /\ uploads = 1
    /\ audits = 0
    /\ pos = 0
    /\ riskLevel = "LOW"
    /\ findings = <<>>
    /\ cleanData = <<>>
    /\ sqlAnalysis = None
    /\ adAnalysis = None
    /\ backupAnalysis = None
    /\ overall = "LOW"
    /\ pc = "idle"
    /\ ExtIdle

NextValidate == \E r \in reads : readerOnload(r)

SpecValidate == InitValidate /\ [][NextValidate]_vars

\* the fingerprint of each source type, in lower case
Fingerprint ==
    [sql |-> {<<"p","r","i","o","r","i","t","y">>, <<"f","i","n","d","i","n","g">>},
     ad |-> {<<"g","r","o","u","p","n","a","m","e">>, <<"s","a","m","a","c","c","o","u","n","t","n","a","m","e">>},
     backup |-> {<<"m","e","s","s","a","g","e">>}]

\* the lower-cased headers contain every column of the fingerprint of t
FingerprintsAs(headers, t) ==
    \A c \in Fingerprint[t] : \E i \in 1..Len(headers) : toLowerCase(headers[i]) = c

\* the first of SQL, AD, Backup whose fingerprint the headers contain
FirstFingerprint(headers) ==
    IF FingerprintsAs(headers, "sql") THEN Some("sql")
    ELSE IF FingerprintsAs(headers, "ad") THEN Some("ad")
    ELSE IF FingerprintsAs(headers, "backup") THEN Some("backup")
    ELSE None

\* the file picked has been validated into its slot
Validated == reads = {} /\ data # None /\ files[data[1].type].data # None

----------------------------------------------------------------------------
(* D3 Report Generator v1.1: the two validators *)

\* the white space String.prototype.trim removes
IsTrimSpace(c) == c \in {" ", "\t", "\n", "\r"}

RECURSIVE trimLeft(_)
trimLeft(s) == IF s # <<>> /\ IsTrimSpace(Head(s)) THEN trimLeft(Tail(s)) ELSE s

RECURSIVE trimRight(_)
trimRight(s) ==
    IF s # <<>> /\ IsTrimSpace(s[Len(s)]) THEN trimRight(SubSeq(s, 1, Len(s) - 1)) ELSE s

\* String.prototype.trim
trim(s) == trimRight(trimLeft(s))

\* String.prototype.split(sep) for a one-character separator: the pieces
\* between the separators, one (empty) piece for the empty string
RECURSIVE split(_, _)
split(s, sep) ==
    IF \A i \in 1..Len(s) : s[i] # sep THEN <<s>>
    ELSE LET k == CHOOSE i \in 1..Len(s) : s[i] = sep /\ \A j \in 1..(i - 1) : s[j] # sep
         IN  <<SubSeq(s, 1, k - 1)>> \o split(SubSeq(s, k + 1, Len(s)), sep)

V_Empty == "CSV data cannot be empty"
V_Lines == "CSV must contain at least a header row and one data row"
V_Columns == "CSV must contain at least 2 columns"

\* variant of validateCSVInput that counts the lines of the untrimmed text
validateCSVInputUntrimmed(csv) ==
    IF csv = <<>> \/ Len(trim(csv)) = 0 THEN [valid |-> FALSE, error |-> V_Empty]
    ELSE LET lines == split(csv, "\n")
         IN  IF Len(lines) < 2 THEN [valid |-> FALSE, error |-> V_Lines]
             ELSE IF Len(split(lines[1], ",")) < 2
             THEN [valid |-> FALSE, error |-> V_Columns]
             ELSE [valid |-> TRUE, error |-> ""]

\* validateCSVInput(data); error "" stands for null
validateCSVInput(csv) ==
    IF csv = <<>> \/ Len(trim(csv)) = 0 THEN [valid |-> FALSE, error |-> V_Empty]
    ELSE LET lines == split(trim(csv), "\n")
         IN  IF Len(lines) < 2 THEN [valid |-> FALSE, error |-> V_Lines]
             ELSE IF Len(split(lines[1], ",")) < 2
             THEN [valid |-> FALSE, error |-> V_Columns]
             ELSE [valid |-> TRUE, error |-> ""]

\* A parsed API answer, by what validateReportResponse looks at:
\*   kind      "null", "string", "array" or "object" (typeof and !data)
\*   fields    the properties the value has (field in data)
\*   findingsIsArray, nextStepsIsArray   Array.isArray of the two properties
\*   findings  the elements of data.findings: isNull for a null element, and
\*             the five texts, "" when empty or absent
requiredFields == <<"overallRisk", "score", "summary", "findings", "nextSteps">>

\* f.category && f.status && f.title && f.detail && f.remediation
findingHasRequiredFields(f) ==
    f.category # "" /\ f.status # "" /\ f.title # "" /\ f.detail # "" /\ f.remediation # ""

\* data.findings.every(f => ...): "throws" when a null element is reached
\* (f.category of null), FALSE at the first element lacking a field
RECURSIVE everyFinding(_)
everyFinding(fs) ==
    IF fs = <<>> THEN "true"
    ELSE IF Head(fs).isNull THEN "throws"
    ELSE IF ~findingHasRequiredFields(Head(fs)) THEN "false"
    ELSE everyFinding(Tail(fs))

\* variant of validateReportResponse without the check of the findings
validateReportResponseFieldsOnly(parsed) ==
    IF parsed.kind \in {"null", "string"} THEN "false"
    ELSE IF ~(\A i \in 1..Len(requiredFields) : requiredFields[i] \in parsed.fields)
    THEN "false"
    ELSE IF parsed.nextStepsIsArray THEN "true" ELSE "false"

\* validateReportResponse(data): "true", "false", or "throws" (a TypeError)
validateReportResponse(parsed) ==
    IF parsed.kind \in {"null", "string"} THEN "false"
    ELSE IF ~(\A i \in 1..Len(requiredFields) : requiredFields[i] \in parsed.fields)
    THEN "false"
    ELSE IF ~parsed.findingsIsArray \/ Len(parsed.findings) = 0 THEN "false"
    ELSE LET every == everyFinding(parsed.findings)
         IN  IF every = "true"
             THEN (IF parsed.nextStepsIsArray THEN "true" ELSE "false")
             ELSE every

----------------------------------------------------------------------------
(* D3 Report Generator v1.1: the answers of the API *)

F_ok == [isNull |-> FALSE, category |-> "SQL", status |-> "FAIL", title |-> "t",
         detail |-> "d", remediation |-> "r"]
F_ok2 == [isNull |-> FALSE, category |-> "AD", status |-> "PASS", title |-> "t",
          detail |-> "d", remediation |-> "r"]
F_emptyTitle == [F_ok EXCEPT !.title = ""]
F_noRemediation == [F_ok EXCEPT !.remediation = ""]
F_null == [isNull |-> TRUE, category |-> "", status |-> "", title |-> "",
           detail |-> "", remediation |-> ""]

FindingLists == {<<>>, <<F_ok>>, <<F_ok, F_ok2>>, <<F_ok, F_emptyTitle>>, <<F_noRemediation>>,
                 <<F_null>>, <<F_emptyTitle, F_null>>, <<F_ok, F_null>>}

AllFields == {requiredFields[i] : i \in 1..Len(requiredFields)}

\* what JSON.parse can return
ParsedValues ==
    {[kind |-> k, fields |-> {}, findingsIsArray |-> FALSE, nextStepsIsArray |-> FALSE,
      findings |-> <<>>] : k \in {"null", "string", "array"}}
    \cup
    {v \in [kind : {"object"},
            fields : {AllFields, AllFields \ {"score"}, AllFields \ {"findings"},
                      AllFields \ {"nextSteps"}},
            findingsIsArray : BOOLEAN, nextStepsIsArray : BOOLEAN,
            findings : FindingLists] :
        /\ v.findingsIsArray => "findings" \in v.fields
        /\ v.nextStepsIsArray => "nextSteps" \in v.fields
        /\ ~v.findingsIsArray => v.findings = <<>>}

NoValue == [kind |-> "null", fields |-> {}, findingsIsArray |-> FALSE,
            nextStepsIsArray |-> FALSE, findings |-> <<>>]

M_Status == <<"A","P","I"," ","r","e","q","u","e","s","t"," ","f","a","i","l","e","d"," ","w","i","t","h"," ","s","t","a","t","u","s"," ","5","0","0">>
M_NoContent == <<"N","o"," ","r","e","s","p","o","n","s","e"," ","c","o","n","t","e","n","t"," ","r","e","c","e","i","v","e","d"," ","f","r","o","m"," ","A","P","I">>
M_Syntax == <<"U","n","e","x","p","e","c","t","e","d"," ","t","o","k","e","n"," ","H"," ","i","n"," ","J","S","O","N"," ","a","t"," ","p","o","s","i","t","i","o","n"," ","0">>
M_Structure == <<"I","n","v","a","l","i","d"," ","r","e","p","o","r","t"," ","s","t","r","u","c","t","u","r","e"," ","r","e","c","e","i","v","e","d"," ","f","r","o","m"," ","A","P","I">>
M_TypeError == <<"C","a","n","n","o","t"," ","r","e","a","d"," ","p","r","o","p","e","r","t","i","e","s"," ","o","f"," ","n","u","l","l"," ","(","r","e","a","d","i","n","g"," ","'","c","a","t","e","g","o","r","y","'",")">>

\* how a fetch can settle: it rejects (message), the API answers with a
\* non-OK status (message: error.message of the body, empty when the body
\* has none), or with OK and no text, text that is not JSON, or JSON
Responses ==
    {[settle |-> "reject", message |-> m, content |-> "none", parsed |-> NoValue] :
        m \in {<<"F","a","i","l","e","d"," ","t","o"," ","f","e","t","c","h">>, <<"L","o","a","d"," ","f","a","i","l","e","d">>}}
    \cup
    {[settle |-> "status", message |-> m, content |-> "none", parsed |-> NoValue] :
        m \in {<<>>, <<"A","P","I"," ","k","e","y"," ","n","o","t"," ","v","a","l","i","d","."," ","P","l","e","a","s","e"," ","p","a","s","s"," ","a"," ","v","a","l","i","d"," ","A","P","I"," ","k","e","y",".">>,
               <<"I","n","v","a","l","i","d"," ","J","S","O","N"," ","p","a","y","l","o","a","d"," ","r","e","c","e","i","v","e","d",".">>}}
    \cup
    {[settle |-> "ok", message |-> <<>>, content |-> c, parsed |-> NoValue] :
        c \in {"none", "garbled"}}
    \cup
    {[settle |-> "ok", message |-> <<>>, content |-> "json", parsed |-> v] :
        v \in ParsedValues}

\* the message of the Error the try block throws for a response, None when
\* it throws nothing
thrownBy(resp) ==
    IF resp.settle = "reject" THEN Some(resp.message)
    ELSE IF resp.settle = "status"
    THEN Some(IF resp.message # <<>> THEN resp.message ELSE M_Status)
    ELSE IF resp.content = "none" THEN Some(M_NoContent)
    ELSE IF resp.content = "garbled" THEN Some(M_Syntax)
    ELSE LET ok == validateReportResponse(resp.parsed)
         IN  IF ok = "throws" THEN Some(M_TypeError)
             ELSE IF ok = "false" THEN Some(M_Structure)
             ELSE None

\* the catch block: the error object set for a thrown message
caught(message) ==
    IF includes(message, <<"A","P","I"," ","r","e","q","u","e","s","t"," ","f","a","i","l","e","d">>)
    THEN [type |-> "API", message |-> "API request failed", details |-> message]
    ELSE IF includes(message, <<"J","S","O","N">>)
    THEN [type |-> "PARSING", message |-> "Failed to parse API response", details |-> message]
    ELSE IF includes(message, <<"f","e","t","c","h">>)
    THEN [type |-> "NETWORK", message |-> "Network connection failed",
          details |-> <<"P","l","e","a","s","e"," ","c","h","e","c","k"," ","y","o","u","r"," ","i","n","t","e","r","n","e","t"," ","c","o","n","n","e","c","t","i","o","n"," ","a","n","d"," ","t","r","y"," ","a","g","a","i","n">>]
    ELSE [type |-> "GENERATION", message |-> "Failed to generate report", details |-> message]

E_Config == [type |-> "CONFIG", message |-> "API key not configured",
             details |-> <<"P","l","e","a","s","e"," ","a","d","d"," ","y","o","u","r"," ","G","e","m","i","n","i"," ","A","P","I"," ","k","e","y"," ","t","o"," ","t","h","e"," ",".","e","n","v"," ","f","i","l","e"," ","a","s"," ","V","I","T","E","_","G","E","M","I","N","I","_","A","P","I","_","K","E","Y">>]

----------------------------------------------------------------------------
(* D3 Report Generator v1.1: the component *)

\* requests that can be open at once before the model stops issuing more
MaxInflight == 2

\* SAMPLE_CSV_DATA, shortened to its first two columns and rows
SAMPLE_CSV_DATA == <<"H","o","s","t","n","a","m","e",",","S","Q","L","_","V","e","r","s","i","o","n">> \o <<"\n">> \o <<"S","E","R","V","E","R","0","1",",","S","Q","L","2","0","1","9">>

\* the texts typed or pasted into the textarea
CsvTexts ==
    {<<>>, <<" ", "\n", " ">>, <<"a",",","b">>, <<"a", "\n", "b">>, <<"a", "\n", "b", ",", "c">>,
     <<"a", ",", "b", "\n">>, <<"a", ",", "b", "\n", "1", ",", "2">>,
     <<" ", "a", ",", "b", "\n", "1", ",", "2", "\n">>}

\* import.meta.env.VITE_GEMINI_API_KEY || ""
ApiKeys == {"", "your_api_key_here", "AIza"}

InitD3 ==
    /\ AppIdle
    /\ CoreIdle
    /\ RerunIdle
    /\ PlanIdle
    /\ csvData = <<>>
    /\ reportData = None
    /\ loading = FALSE
    /\ error = None
    /\ validationError = ""
    /\ apiKey \in ApiKeys
    /\ inflight = <<>>
    /\ staleRequests = 0

\* textarea onChange: setCsvData(e.target.value); setValidationError('')
onChangeCsv(text) ==
    /\ csvData' = text
    /\ validationError' = ""
    /\ UNCHANGED <<appVars, coreVars, rerunVars, planVars, reportData, loading,
                   error, apiKey, inflight, staleRequests>>

loadSampleData ==
    /\ csvData' = SAMPLE_CSV_DATA
    /\ validationError' = ""
    /\ error' = None
    /\ reportData' = None
    /\ staleRequests' = Len(inflight)
    /\ UNCHANGED <<appVars, coreVars, rerunVars, planVars, loading, apiKey, inflight>>

handleReset ==
    /\ csvData' = <<>>
    /\ reportData' = None
    /\ error' = None
    /\ validationError' = ""
    /\ staleRequests' = Len(inflight)
    /\ UNCHANGED <<appVars, coreVars, rerunVars, planVars, loading, apiKey, inflight>>

\* variant of the button's disabled test that ignores loading
generateDisabledWhenEmptyOnly == csvData = <<>>

\* disabled={loading || !csvData}
generateDisabledD3 == loading \/ csvData = <<>>

\* generateReport up to its first await.  The answer the request will get
\* is drawn when the request is issued and kept with it.
generateReport ==
    /\ ~generateDisabledD3
    /\ Len(inflight) < MaxInflight
    /\ LET validation == validateCSVInput(csvData)
       IN  IF ~validation.valid
           THEN /\ error' = None
                /\ validationError' = validation.error
                /\ UNCHANGED <<loading, inflight>>
           ELSE IF apiKey = "" \/ apiKey = "your_api_key_here"
           THEN \* setLoading(true); setError({type: 'CONFIG', ...}); setLoading(false)
                /\ error' = Some(E_Config)
                /\ validationError' = ""
                /\ loading' = FALSE
                /\ UNCHANGED inflight
           ELSE /\ error' = None
                /\ validationError' = ""
                /\ loading' = TRUE
                /\ \E resp \in Responses : inflight' = Append(inflight, resp)
    /\ UNCHANGED <<appVars, coreVars, rerunVars, planVars, csvData, reportData, apiKey,
                   staleRequests>>

\* variant of fetchSettles whose catch block also calls setReportData(null)
fetchSettlesClearsReportOnError(i) ==
    /\ i \in 1..Len(inflight)
    /\ LET resp == inflight[i]
           thrown == thrownBy(resp)
       IN  IF thrown = None
           THEN /\ reportData' = Some(resp.parsed)
                /\ error' = None
           ELSE /\ error' = Some(caught(thrown[1]))
                /\ reportData' = None
    /\ loading' = FALSE
    /\ staleRequests' = IF i <= staleRequests THEN staleRequests - 1 ELSE staleRequests
    /\ inflight' = SubSeq(inflight, 1, i - 1) \o SubSeq(inflight, i + 1, Len(inflight))
    /\ UNCHANGED <<appVars, coreVars, rerunVars, planVars, csvData, validationError, apiKey>>

\* variant of fetchSettles without the finally block: loading is set back
\* only next to setReportData
fetchSettlesWithoutFinally(i) ==
    /\ i \in 1..Len(inflight)
    /\ LET resp == inflight[i]
           thrown == thrownBy(resp)
       IN  IF thrown = None
           THEN /\ reportData' = Some(resp.parsed)
                /\ error' = None
                /\ loading' = FALSE
           ELSE /\ error' = Some(caught(thrown[1]))
                /\ UNCHANGED <<reportData, loading>>
    /\ staleRequests' = IF i <= staleRequests THEN staleRequests - 1 ELSE staleRequests
    /\ inflight' = SubSeq(inflight, 1, i - 1) \o SubSeq(inflight, i + 1, Len(inflight))
    /\ UNCHANGED <<appVars, coreVars, rerunVars, planVars, csvData, validationError, apiKey>>

\* generateReport after the awaits, for the i-th open request: try, catch, finally
fetchSettles(i) ==
    /\ i \in 1..Len(inflight)
    /\ LET resp == inflight[i]
           thrown == thrownBy(resp)
       IN  IF thrown = None
           THEN /\ reportData' = Some(resp.parsed)
                /\ error' = None
           ELSE /\ error' = Some(caught(thrown[1]))
                /\ UNCHANGED reportData
    /\ loading' = FALSE
    /\ staleRequests' = IF i <= staleRequests THEN staleRequests - 1 ELSE staleRequests
    /\ inflight' = SubSeq(inflight, 1, i - 1) \o SubSeq(inflight, i + 1, Len(inflight))
    /\ UNCHANGED <<appVars, coreVars, rerunVars, planVars, csvData, validationError, apiKey>>

NextD3 ==
    \/ \E text \in CsvTexts : onChangeCsv(text)
    \/ loadSampleData
    \/ handleReset
    \/ generateReport
    \/ \E i \in 1..MaxInflight : fetchSettles(i)

SpecD3 == InitD3 /\ [][NextD3]_vars


----------------------------------------------------------------------------
(* D3 Report Generator v1.1: what becomes reportData *)

\* a report as the documentation describes it: the five properties,
\* findings a non-empty array of complete findings, nextSteps an array
IsCompleteFinding(f) ==
    /\ ~f.isNull
    /\ \A k \in {"category", "status", "title", "detail", "remediation"} : f[k] # ""

IsValidReport(v) ==
    /\ v.kind = "object"
    /\ AllFields \subseteq v.fields
    /\ v.findingsIsArray
    /\ v.findings # <<>>
    /\ \A i \in 1..Len(v.findings) : IsCompleteFinding(v.findings[i])
    /\ v.nextStepsIsArray

\* the response is JSON text for a valid report
CarriesValidReport(resp) ==
    resp.settle = "ok" /\ resp.content = "json" /\ IsValidReport(resp.parsed)

\* this step settles the i-th open request
Settles(i) ==
    /\ i \in 1..Len(inflight)
    /\ inflight' = SubSeq(inflight, 1, i - 1) \o SubSeq(inflight, i + 1, Len(inflight))

ReportDataIsValid == reportData # None => IsValidReport(reportData[1])

OtherResponsesSetError ==
    \A i \in 1..MaxInflight :
        (Settles(i) /\ ~CarriesValidReport(inflight[i]))
            => (error' # None /\ reportData' = reportData)

\* C19: reportData is never anything but null or a response that is an
\* object with overallRisk, score, summary, findings and nextSteps, findings
\* a non-empty array of findings with non-empty category, status, title,
\* detail and remediation, and nextSteps an array; a request settling with
\* any other response sets an error and leaves reportData as it was.
C19_OnlyValidatedReports == []ReportDataIsValid /\ [][OtherResponsesSetError]_vars

\* a valid report with two findings was stored, and a later answer of the
\* wrong structure set an error next to it
C19_Witness ==
    /\ reportData # None
    /\ IsValidReport(reportData[1])
    /\ Len(reportData[1].findings) = 2
    /\ error = Some(caught(M_Structure))
    /\ inflight = <<>>

----------------------------------------------------------------------------
(* D3 Report Generator v1.1: input that is not sent *)

\* number of occurrences of the character c in s
Count(s, c) == Cardinality({i \in 1..Len(s) : s[i] = c})

\* the first line of s
FirstLine(s) ==
    IF Count(s, "\n") = 0 THEN s
    ELSE SubSeq(s, 1, (CHOOSE i \in 1..Len(s) :
                          s[i] = "\n" /\ \A j \in 1..(i - 1) : s[j] # "\n") - 1)

\* the message the documentation gives for a text, "" for a text that is sent
ExpectedValidationError(csv) ==
    IF \A i \in 1..Len(csv) : IsTrimSpace(csv[i]) THEN V_Empty
    ELSE IF Count(trim(csv), "\n") + 1 < 2 THEN V_Lines
    ELSE IF Count(FirstLine(trim(csv)), ",") + 1 < 2 THEN V_Columns
    ELSE ""

InvalidInputIsNotSent ==
    (generateReport /\ ExpectedValidationError(csvData) # "")
        => /\ validationError' = ExpectedValidationError(csvData)
           /\ loading' = loading
           /\ ~loading'
           /\ inflight' = inflight
           /\ reportData' = reportData
           /\ error' = None

\* C20: generateReport on a text that is empty or only white space, has fewer
\* than two lines, or has a header row of fewer than two comma-separated
\* columns sets validationError to the matching message, leaves loading false,
\* issues no request, leaves reportData alone and clears error.
C20_InvalidInputIsNotSent ==
    /\ [](validateCSVInput(<<>>) = [valid |-> FALSE, error |-> V_Empty])
    /\ [][InvalidInputIsNotSent]_vars

\* a one-column text was refused while an earlier report stayed on screen
C20_Witness ==
    /\ csvData = <<"a", "\n", "b">>
    /\ validationError = V_Columns
    /\ reportData # None
    /\ error = None
    /\ ~loading
    /\ inflight = <<>>


----------------------------------------------------------------------------
(* D3 Report Generator v1.1: one request at a time *)

\* C21: at most one generation request is open at any time, and while one is
\* open loading is true (so the generate button is disabled), under every
\* sequence of generate, edit, sample-load and reset actions.
C21_AtMostOneInFlight ==
    /\ Len(inflight) <= 1
    /\ inflight # <<>> => (loading /\ generateDisabledD3)

\* a second request is open after an earlier one stored its report
C21_Witness ==
    /\ Len(inflight) = 1
    /\ loading
    /\ reportData # None


----------------------------------------------------------------------------
(* analyzeSQL: one finding per actionable record, by first match *)

\* the finding the documentation gives for an actionable record
ExpectedSqlFinding(row) ==
    LET text == toLowerCase(OrElse(Get(row, K_Finding), <<>>))
        db == OrElse(Get(row, K_DatabaseName), DbNameDefault)
    IN  IF includes(text, P_backupsNotPerformed)
        THEN [type |-> "CRITICAL", title |-> T_NoBackups \o db]
        ELSE IF includes(text, P_corruptionCheck)
        THEN [type |-> "HIGH", title |-> T_CorruptionRisk \o db]
        ELSE [type |-> "MEDIUM", title |-> T_ConfigIssue \o text]

\* the positions of the actionable records among the first n of rows
ActionableUpTo(rows, n) == {i \in 1..n : actionable(rows[i])}

\* fs holds, in input order, exactly the findings of the actionable records
\* among the first n of rows
FindingsMatch(fs, rows, n) ==
    /\ Len(fs) = Cardinality(ActionableUpTo(rows, n))
    /\ \A i \in ActionableUpTo(rows, n) :
           fs[Cardinality(ActionableUpTo(rows, i))] = ExpectedSqlFinding(rows[i])

\* C22: analyzeSQL produces exactly one finding per actionable record, in the
\* input order of those records: CRITICAL when Finding contains 'backups not
\* performed', else HIGH when it contains 'corruption check', else a MEDIUM
\* 'Config Issue'; a record matching both patterns yields only the CRITICAL one.
C22_OneFindingPerActionableRecord ==
    /\ (pc = "loop" /\ data # None) => FindingsMatch(findings, data[1], pos)
    /\ (pc = "done" /\ ~noData(data))
           => FindingsMatch(sqlAnalysis[1].findings, data[1], Len(data[1]))

\* a MEDIUM record, an ignored record and a record matching both patterns
\* returned a MEDIUM finding followed by a single CRITICAL one
C22_Witness ==
    /\ pc = "done"
    /\ data = Some(<<SqlMedium, SqlOver50, SqlBothPatterns>>)
    /\ Len(sqlAnalysis[1].findings) = 2
    /\ sqlAnalysis[1].findings[1].type = "MEDIUM"
    /\ sqlAnalysis[1].findings[2] = [type |-> "CRITICAL", title |-> T_NoBackups \o DbNameDefault]


----------------------------------------------------------------------------
(* D3 Report Generator v1.1: a non-OK answer *)

E_Api(details) == [type |-> "API", message |-> "API request failed", details |-> details]

\* the step settles a request the API answered with a non-OK status
SettlesNonOk(i) == Settles(i) /\ inflight[i].settle = "status"

NonOkStatusIsApiError ==
    \A i \in 1..MaxInflight :
        SettlesNonOk(i)
            => /\ error' # None
               /\ error'[1].type = "API"
               /\ error'[1].message = "API request failed"
               /\ reportData' = reportData

\* C23: a request answered with a non-OK HTTP status ends with error.type
\* 'API' and error.message 'API request failed', whatever the body of the
\* answer holds, and reportData is not set from it.
C23_NonOkStatusIsApiError == [][NonOkStatusIsApiError]_vars

NonOkStatusWithoutBodyMessage ==
    \A i \in 1..MaxInflight :
        (SettlesNonOk(i) /\ inflight[i].message = <<>>)
            => (error' = Some(E_Api(M_Status)) /\ reportData' = reportData)

NonOkStatusSetsSomeError ==
    \A i \in 1..MaxInflight :
        SettlesNonOk(i) => (error' # None /\ loading' = FALSE /\ reportData' = reportData)

\* C23, the part that holds: a non-OK answer always sets an error and leaves
\* reportData alone, and the error is the API error when the body of the
\* answer carries no error.message of its own.
C23_NonOkStatusWithoutBodyMessage ==
    [][NonOkStatusWithoutBodyMessage /\ NonOkStatusSetsSomeError]_vars


----------------------------------------------------------------------------
(* D3 Report Generator v1.1: loading ends on every path *)

\* every fetch settles: its promise is fulfilled or rejected
SpecD3Live == SpecD3 /\ WF_vars(\E i \in 1..MaxInflight : fetchSettles(i))

ErrorTypes == {"CONFIG", "API", "PARSING", "NETWORK", "GENERATION"}

\* the invocation finds no API key: one CONFIG error, loading false again
ConfigPath ==
    (generateReport /\ ExpectedValidationError(csvData) = "" /\ apiKey \in {"", "your_api_key_here"})
        => (error' = Some(E_Config) /\ ~loading' /\ inflight' = inflight)

\* a request settles: loading false again; no error on success, and on the
\* failing paths one error object of a known type
SettlePath ==
    \A i \in 1..MaxInflight :
        Settles(i)
            => /\ ~loading'
               /\ IF CarriesValidReport(inflight[i])
                  THEN error' = None
                  ELSE error' # None /\ error'[1].type \in ErrorTypes

\* C24: whenever loading is true it eventually is false again, given that the
\* fetch settles, on the success path and on every failing path; and each
\* failing path (no API key, non-OK answer, no content, unparseable JSON,
\* invalid structure) sets one error object whose type is one of CONFIG, API,
\* PARSING, NETWORK, GENERATION.
C24_LoadingEnds == (loading ~> ~loading) /\ [][ConfigPath /\ SettlePath]_vars

\* an invocation ended on the parse-failure path: loading is false again and
\* the PARSING error is set
C24_Witness ==
    /\ ~loading
    /\ inflight = <<>>
    /\ error = Some(caught(M_Syntax))
    /\ error[1].type = "PARSING"


----------------------------------------------------------------------------
(* The component: every audit request ends in a report *)

\* a timer set with setTimeout fires
SpecLive == Spec /\ WF_vars(timerFires)

\* a slot holds a validated file
HoldsValidatedFile(t) == files[t].valid /\ files[t].data # None

\* the step is a click on Generate Risk Report
IsRunAuditStep == audits' = audits + 1

\* the step is the callback of a timer
IsTimerStep == Len(timers') < Len(timers)

GenerateNeedsValidatedFile ==
    IsRunAuditStep => (\E t \in Slots : HoldsValidatedFile(t)) /\ isProcessing'

TimerSetsReport == IsTimerStep => (report' # None /\ ~isProcessing')

\* C25: Generate Risk Report is taken only when at least one slot holds a
\* validated file, and every pending audit request is eventually followed,
\* when its timer fires, by a state with a report and isProcessing false,
\* whatever the three slots hold.
C25_AuditEndsInReport ==
    /\ [][GenerateNeedsValidatedFile /\ TimerSetsReport]_vars
    /\ (timers # <<>>) ~> (report # None /\ ~isProcessing)

\* a report was produced, after two clicks, with a rejected file in the
\* backup slot and an empty SQL slot
C25_Witness ==
    /\ report # None
    /\ ~isProcessing
    /\ timers = <<>>
    /\ audits = 2
    /\ files["backup"].data # None
    /\ ~files["backup"].valid
    /\ files["sql"].data = None


----------------------------------------------------------------------------
(* The component: an upload touches its own slot only *)

\* the step is the completion of the read r
ReadCompletes(r) == r \in reads /\ reads' = reads \ {r}

ReadChangesOwnSlotOnly ==
    \A r \in reads :
        ReadCompletes(r)
            => /\ \A t \in Slots \ {r.type} : files'[t] = files[t]
               /\ files'[r.type].data = Some(r.file.data)
               /\ report' = report

\* choosing a file starts a read and changes neither files nor report
UploadChangesNothingYet == (uploads' # uploads) => (files' = files /\ report' = report)

\* C26: when the read of a file uploaded to one slot completes, data, valid
\* and error of the two other slots are unchanged, in every order in which
\* the reads of uploads to different slots complete, and no upload changes
\* the report.
C26_UploadChangesOwnSlotOnly == [][ReadChangesOwnSlotOnly /\ UploadChangesNothingYet]_vars

\* two reads have completed into the SQL and AD slots while a third is
\* still pending
C26_Witness ==
    /\ files["sql"].valid
    /\ files["ad"].data # None
    /\ files["backup"].data = None
    /\ reads # {}
    /\ \A r \in reads : r.type = "backup"
    /\ uploads = 3


----------------------------------------------------------------------------
(* The component: Start New Audit *)

\* the step is a click on Start New Audit
IsResetStep == report # None /\ report' = None

\* the callback of a timer that was set before the latest Start New Audit
\* runs (timers of equal delay fire in the order they were set)
IsStaleTimerStep == IsTimerStep /\ staleTimers > 0

NoStaleTimerSetsReport == (IsStaleTimerStep /\ report = None) => report' = None

ResetKeepsFiles ==
    IsResetStep => (files' = files /\ reads' = reads /\ isProcessing' = isProcessing)

\* C27: after Start New Audit has set report to null, no timer of an audit
\* request made before that reset (such as a second click on the generate
\* button while the first was processing) makes a report appear again, so
\* report stays null until a new request is made; and the reset leaves the
\* uploaded files and their validation state unchanged.
C27_ResetIsFinal == [][NoStaleTimerSetsReport /\ ResetKeepsFiles]_vars

ReportAppearsByTimerOnly == (report = None /\ report' # None) => IsTimerStep

\* C27, the part that holds: Start New Audit changes nothing but report,
\* and a report appears only when the callback of a timer runs, so with no
\* timer pending at the reset report stays null until the next request.
C27_ResetKeepsFiles == [][ResetKeepsFiles /\ ReportAppearsByTimerOnly]_vars


----------------------------------------------------------------------------
(* D3 Report Generator v1.1: Reset and Sample *)

\* the step settles a request that was open when Reset or Sample was last
\* clicked (the open requests are kept in the order they were issued)
SettlesStale(i) == Settles(i) /\ i <= staleRequests

NoStaleResponseSetsReport ==
    \A i \in 1..MaxInflight :
        (SettlesStale(i) /\ reportData = None) => reportData' = None

\* C28: after handleReset or loadSampleData has cleared reportData, the
\* response of a request that was already open at that moment does not set
\* reportData, so reportData stays null until generateReport is invoked again.
C28_ResetIsFinal == [][NoStaleResponseSetsReport]_vars

ReportDataAppearsBySettleOnly ==
    (reportData = None /\ reportData' # None) => \E i \in 1..MaxInflight : Settles(i)

ClearWithNothingOpen ==
    (staleRequests' # staleRequests /\ inflight = <<>>) => (staleRequests' = 0 /\ reportData' = None)

\* C28, the part that holds: reportData becomes non-null only when a request
\* settles, so after a Reset or Sample clicked while no request is open
\* reportData stays null until generateReport is invoked again.
C28_ResetWithNothingOpen == [][ReportDataAppearsBySettleOnly /\ ClearWithNothingOpen]_vars


----------------------------------------------------------------------------
(* D3 Report Generator v1.1: a failed invocation keeps the earlier report *)

\* generateReport up to its first await never touches reportData, and on its
\* two early returns it reports the failure
InvocationKeepsReport ==
    generateReport
        => /\ reportData' = reportData
           /\ ExpectedValidationError(csvData) # "" => validationError' # ""
           /\ (ExpectedValidationError(csvData) = "" /\ apiKey \in {"", "your_api_key_here"})
                  => error' = Some(E_Config)

\* a request that settles with anything but a valid report keeps reportData
FailedRequestKeepsReport ==
    \A i \in 1..MaxInflight :
        (Settles(i) /\ ~CarriesValidReport(inflight[i]))
            => (reportData' = reportData /\ error' # None /\ error'[1].type # "CONFIG")

\* C29: a generateReport invocation that fails (validation error, missing API
\* key, API or network error, unparseable or invalid response) leaves
\* reportData exactly as it was, so a report of an earlier request stays in
\* place next to the error.
C29_FailureKeepsReport == [][InvocationKeepsReport /\ FailedRequestKeepsReport]_vars

\* a report of an earlier request is in place next to a network error
C29_Witness ==
    /\ reportData # None
    /\ error # None
    /\ error[1].type = "NETWORK"
    /\ ~loading


----------------------------------------------------------------------------
(* Every report has a severity and something to do *)

\* some source gives a reason for CRITICAL
HasCriticalSource(rep) ==
    \/ rep.backup.status = "FAIL"
    \/ rep.ad.findings # <<>>
    \/ rep.sql.findings # <<>>

ReportHasSeverity ==
    report # None =>
        /\ report[1].overall \in {"LOW", "MEDIUM", "HIGH", "CRITICAL"}
        /\ report[1].overall = "CRITICAL" => HasCriticalSource(report[1])

\* the 'Top 3 Immediate Actions' of the earlier version
TopActionsNeverEmpty ==
    (plan # None /\ plan[1].view = "Top 3 Immediate Actions") =>
        /\ plan[1].items # <<>>
        /\ report[1].overall = "CRITICAL" =>
               At(plan[1].items, "backup") \cup At(plan[1].items, "ad")
                   \cup At(plan[1].items, "sql") # {}
        /\ report[1].overall # "CRITICAL" => At(plan[1].items, "fallback") # {}

\* the 'Immediate Actions' of the current version: always one item
ImmediateActionsNeverEmpty ==
    (plan # None /\ plan[1].view = "Immediate Actions") =>
        /\ Len(plan[1].items) = 1
        /\ report[1].overall # "CRITICAL" <=> At(plan[1].items, "fallback") # {}

\* C30: in every report overall is LOW, MEDIUM, HIGH or CRITICAL, never
\* UNKNOWN; when it is CRITICAL the backup status is FAIL or the AD or SQL
\* findings are non-empty, so the Immediate Actions on screen hold at least
\* one item for a source; when it is not CRITICAL they hold the fallback
\* item; so the list is never empty.
C30_ActionsNeverEmpty ==
    ReportHasSeverity /\ TopActionsNeverEmpty /\ ImmediateActionsNeverEmpty

\* a report that is CRITICAL through its AD findings alone is rendered with
\* the one item for AD
C30_Witness ==
    /\ plan # None
    /\ plan[1].view = "Top 3 Immediate Actions"
    /\ report[1].overall = "CRITICAL"
    /\ report[1].backup.status # "FAIL"
    /\ report[1].sql.findings = <<>>
    /\ Kinds(plan[1].items) = <<"ad">>

====
